---- MODULE Spec2Model ----
(***************************************************************************)
(* Model of the urbanicity scoring engine (src/urbanicity): robust         *)
(* z-scores, the signal-usability decision, the weighted composite score,  *)
(* quantile banding, the acceptance validator and the per-city pipeline.   *)
(*                                                                         *)
(* Numbers.  The code computes in IEEE doubles; the model computes in      *)
(* exact rationals over the integers.                                      *)
(*   - A cell value is a record [nan, v]: nan = TRUE is NaN, otherwise v   *)
(*     is an integer numerator.                                            *)
(*   - A column (pd.Series) is [den, cells]: cell i holds cells[i].v/den.  *)
(*   - A density column is measured in a unit u.  The parameter eps of     *)
(*     robust_zscore is MAD_EPS measured in u: eps = 1 when u = MAD_EPS    *)
(*     (1e-9, the code's constant), eps = 0 when u is so much larger than  *)
(*     MAD_EPS (a z-score, a density in features per km2) that MAD_EPS is  *)
(*     below the resolution of every quantity compared with it: then       *)
(*     "x < MAD_EPS" is "x <= 0" for the non-negative x the code tests,    *)
(*     and "scale + MAD_EPS" is scale up to a relative error of 1e-9.      *)
(*   - The population standard deviation is irrational in general; Std4    *)
(*     rounds it up to a quarter of the unit (the double rounds it too).   *)
(*     The test "std < MAD_EPS" is decided exactly, on the variance.       *)
(***************************************************************************)
EXTENDS Integers, Sequences, FiniteSets, TLC

VARIABLES
    pc,      \* position of the operation under way
    gdf,     \* the cell table (GeoDataFrame): [len, cols, attrs]
    args,    \* the arguments of the operation under way
    ret,     \* what the operation returned or raised
    steps,   \* run_city: the stages executed so far, in order
    series,  \* robust_zscore: the input column
    zs,      \* robust_zscore: the outputs computed so far
    failed,  \* main: the cities whose run raised, in order
    files    \* the output writers: what has been written, by file

vars == <<pc, gdf, args, ret, steps, series, zs, failed, files>>

(***************************************************************************)
(* Bounds of the model.                                                    *)
(***************************************************************************)
MaxCells == 4
MaxDensity == 2
OutlierDensity == 25

(***************************************************************************)
(* Values and columns.                                                     *)
(***************************************************************************)
NaN == [nan |-> TRUE, v |-> 0]

F(x) == [nan |-> FALSE, v |-> x]

Abs(x) == IF x < 0 THEN -x ELSE x

Range(s) == {s[i] : i \in DOMAIN s}

RECURSIVE SumSeq(_)
SumSeq(s) == IF Len(s) = 0 THEN 0 ELSE Head(s) + SumSeq(Tail(s))

\* A column of the integers xs (denominator 1).
IntColumn(xs) == [den |-> 1, cells |-> [i \in 1..Len(xs) |-> F(xs[i])]]

\* The k-th smallest value of the non-empty integer sequence xs (k = 1..Len).
KthSmallest(xs, k) ==
    CHOOSE x \in Range(xs) :
        /\ Cardinality({i \in DOMAIN xs : xs[i] < x}) < k
        /\ Cardinality({i \in DOMAIN xs : xs[i] <= x}) >= k

\* Twice the median of the non-empty integer sequence xs: the middle value
\* counted twice, or the sum of the two middle values.
Median2(xs) ==
    LET n == Len(xs)
    IN  IF n % 2 = 1
        THEN 2 * KthSmallest(xs, (n + 1) \div 2)
        ELSE KthSmallest(xs, n \div 2) + KthSmallest(xs, n \div 2 + 1)

\* n^2 times the population variance of xs.
VarN2(xs) ==
    LET n == Len(xs)
    IN  n * SumSeq([i \in 1..n |-> xs[i] * xs[i]]) - SumSeq(xs) * SumSeq(xs)

\* Mutant of Std4: the sample standard deviation (ddof=1).
Std4Sample(xs) ==
    LET n  == Len(xs)
        hi == 8 * (KthSmallest(xs, n) - KthSmallest(xs, 1)) + 1
    IN  CHOOSE s \in 0..hi :
            /\ s * s * n * (n - 1) >= 16 * VarN2(xs)
            /\ s = 0 \/ (s - 1) * (s - 1) * n * (n - 1) < 16 * VarN2(xs)

\* Four times series.std(ddof=0), rounded up to an integer.
Std4(xs) ==
    LET n  == Len(xs)
        hi == 4 * (KthSmallest(xs, n) - KthSmallest(xs, 1)) + 1
    IN  CHOOSE s \in 0..hi :
            /\ s * s * n * n >= 16 * VarN2(xs)
            /\ s = 0 \/ (s - 1) * (s - 1) * n * n < 16 * VarN2(xs)

\* "mad < MAD_EPS", for 4*mad = mad4 and MAD_EPS = e units.
MadBelowEps(mad4, e) == IF e = 0 THEN mad4 <= 0 ELSE mad4 < 4 * e

\* "series.std(ddof=0) < MAD_EPS", decided on the variance.
StdBelowEps(xs, e) ==
    IF e = 0 THEN VarN2(xs) <= 0
    ELSE VarN2(xs) < Len(xs) * Len(xs) * e * e

(***************************************************************************)
(* robust_zscore (score.py).                                               *)
(***************************************************************************)
\* Mutant of Centered: the median is not subtracted.
CenteredNoMedian(xs, med2) == [i \in DOMAIN xs |-> 2 * xs[i]]

\* Twice (series - median).
Centered(xs, med2) == [i \in DOMAIN xs |-> 2 * xs[i] - med2]

\* Mutant of Clip: no clamping.
ClipNone(z, lower, upper) == z

\* z.clip(lower, upper) on a column of numerators over z.den.
Clip(z, lower, upper) ==
    [den   |-> z.den,
     cells |-> [i \in DOMAIN z.cells |->
                  IF z.cells[i].nan THEN NaN
                  ELSE IF z.cells[i].v < lower * z.den THEN F(lower * z.den)
                  ELSE IF z.cells[i].v > upper * z.den THEN F(upper * z.den)
                  ELSE z.cells[i]]]

\* pd.Series(0.0, index=series.index)
ZeroSeries(n) == [den |-> 1, cells |-> [i \in 1..n |-> F(0)]]

\* robust_zscore(series) for a column of finite values; eps is MAD_EPS in
\* the unit of the column (see the header).  An empty column gives an empty
\* column: its median and MAD are NaN, both tests are False, and the
\* arithmetic on no cells yields no cells.
robust_zscore(col, eps) ==
    LET n      == Len(col.cells)
        xs     == [i \in 1..n |-> col.cells[i].v]
        e      == eps * col.den
        med2   == Median2(xs)
        c2     == Centered(xs, med2)
        mad4   == Median2([i \in 1..n |-> Abs(c2[i])])
        scale4 == IF MadBelowEps(mad4, e) THEN Std4(xs) ELSE mad4
    IN  IF n = 0 THEN [den |-> 1, cells |-> <<>>]
        ELSE IF MadBelowEps(mad4, e) /\ StdBelowEps(xs, e) THEN ZeroSeries(n)
        ELSE Clip([den   |-> scale4 + 4 * e,
                   cells |-> [i \in 1..n |-> F(2 * c2[i])]], -10, 10)

(***************************************************************************)
(* SpecZ: robust_zscore as a pure function, applied to a column and then   *)
(* to its own output.                                                      *)
(***************************************************************************)
ZValues == (0..MaxDensity) \cup {OutlierDensity}

ZColumns == UNION {[1..n -> ZValues] : n \in 0..MaxCells}

NoTable == [len |-> 0, cols |-> <<>>, attrs |-> <<>>]

InitZ ==
    /\ pc = "z0"
    /\ series \in {IntColumn(xs) : xs \in ZColumns}
    /\ args \in {[eps |-> e] : e \in {0, 1}}
    /\ zs = <<>>
    /\ failed = <<>>
    /\ files = <<>>
    /\ gdf = NoTable
    /\ ret = "none"
    /\ steps = <<>>

\* z = robust_zscore(series)
ZScore ==
    /\ pc = "z0"
    /\ zs' = <<robust_zscore(series, args.eps)>>
    /\ pc' = "z1"
    /\ UNCHANGED <<gdf, args, ret, steps, series, failed, files>>

\* robust_zscore(z): a z-score is a pure number, far above MAD_EPS.
ZScoreAgain ==
    /\ pc = "z1"
    /\ zs' = Append(zs, robust_zscore(zs[1], 0))
    /\ pc' = "z2"
    /\ UNCHANGED <<gdf, args, ret, steps, series, failed, files>>

NextZ == ZScore \/ ZScoreAgain

SpecZ == InitZ /\ [][NextZ]_vars

\* C6: robust_zscore of a column whose cells all hold the same value is 0
\* in every cell.
C6_ConstantColumnGivesZeros ==
    (pc \in {"z1", "z2"} /\ \A i, j \in DOMAIN series.cells :
                                series.cells[i] = series.cells[j])
        => /\ Len(zs[1].cells) = Len(series.cells)
           /\ \A i \in DOMAIN zs[1].cells : zs[1].cells[i] = F(0)

\* C6 witness: a constant column of several non-zero cells has been scored.
C6_Witness ==
    /\ pc = "z1"
    /\ Len(series.cells) >= 2
    /\ \A i \in DOMAIN series.cells : series.cells[i] = F(MaxDensity)
    /\ \A i \in DOMAIN zs[1].cells : zs[1].cells[i] = F(0)

\* z lies in [-10, 10] in every cell of the column z.
WithinClamp(z) ==
    \A i \in DOMAIN z.cells :
        /\ ~z.cells[i].nan
        /\ -10 * z.den <= z.cells[i].v
        /\ z.cells[i].v <= 10 * z.den

\* C7: every value robust_zscore returns for a finite column lies in
\* [-10, 10], and so does every value of robust_zscore applied again to its
\* own output.
C7_ZScoresWithinClamp ==
    /\ pc \in {"z1", "z2"} => WithinClamp(zs[1])
    /\ pc = "z2" => WithinClamp(zs[2])

\* C7 witness: the clamp acted on the first application (an outlier sits
\* exactly at +10) and the second application has run on that output.
C7_Witness ==
    /\ pc = "z2"
    /\ \E i \in DOMAIN zs[1].cells :
          /\ zs[1].cells[i].v = 10 * zs[1].den
          /\ 2 * (2 * series.cells[i].v - Median2([k \in DOMAIN series.cells |-> series.cells[k].v]))
                > 10 * zs[1].den
    /\ \E i \in DOMAIN zs[2].cells : zs[2].cells[i].v # 0

(***************************************************************************)
(* The cell table.  gdf.cols maps a column name to its column, gdf.attrs   *)
(* a metadata key to its value, gdf.len is the number of cells.            *)
(***************************************************************************)
HasCol(g, name) == name \in DOMAIN g.cols

\* Mutant of SetCol: the new column also replaces the cell identifiers.
SetColOverIdentifier(g, name, col) ==
    [g EXCEPT !.cols = (name :> col) @@
                       [c \in DOMAIN @ |-> IF c = "h3_index" THEN col ELSE @[c]]]

\* result[name] = col
SetCol(g, name, col) == [g EXCEPT !.cols = (name :> col) @@ @]

\* result.attrs[key] = value
SetAttr(g, key, value) == [g EXCEPT !.attrs = (key :> value) @@ @]

\* A column of n cells: the first k hold a, the others b.
PrefixColumn(n, k, a, b) ==
    [den |-> 1, cells |-> [i \in 1..n |-> IF i <= k THEN F(a) ELSE F(b)]]

\* A column of n cells all holding the value x.
ConstColumn(n, x) == [den |-> 1, cells |-> [i \in 1..n |-> x]]

\* A Python bool and a numpy.bool_ are different objects: "x is False" holds
\* of the first only.
PyBool(b) == [type |-> "bool", val |-> b]

NpBool(b) == [type |-> "numpy.bool_", val |-> b]

(***************************************************************************)
(* The signal-usability decision (score.py, config.py).                    *)
(***************************************************************************)
\* SIGNAL_SPARSITY_THRESHOLD = 0.05
SIGNAL_SPARSITY_THRESHOLD == [num |-> 5, den |-> 100]

\* (gdf["signal_density_per_km2"] > 0).mean(): the count of cells above 0
\* over the count of cells, NaN for no cells.  A NaN cell is not above 0.
signal_fraction(g) ==
    LET c == g.cols["signal_density_per_km2"].cells
    IN  [nan |-> g.len = 0,
         num |-> Cardinality({i \in DOMAIN c : ~c[i].nan /\ c[i].v > 0}),
         den |-> g.len]

\* Mutant of FracAtLeast: strictly above the threshold.
FracAbove(frac, thr) == ~frac.nan /\ frac.num * thr.den > thr.num * frac.den

\* frac >= SIGNAL_SPARSITY_THRESHOLD.  Both sides are the doubles nearest to
\* a quotient of integers: the comparison agrees with the exact one for
\* every table below 10^15 cells.  NaN >= x is False.
FracAtLeast(frac, thr) == ~frac.nan /\ frac.num * thr.den >= thr.num * frac.den

\* _should_use_signals(gdf, signal_mode, city): a Python bool for "on" and
\* "off", the numpy.bool_ of the comparison for "auto".
should_use_signals(g, signal_mode) ==
    IF signal_mode = "on" THEN PyBool(TRUE)
    ELSE IF signal_mode = "off" THEN PyBool(FALSE)
    ELSE NpBool(FracAtLeast(signal_fraction(g), SIGNAL_SPARSITY_THRESHOLD))

(***************************************************************************)
(* SpecUse: the usability decision as a pure function of the mode and the  *)
(* signal density column.                                                  *)
(***************************************************************************)
MaxHexes == 21
MaxSignalHexes == 2

SignalModes == {"on", "off", "auto"}

\* Tables of up to MaxHexes cells of which up to MaxSignalHexes, the first
\* or the last ones, hold a signal.
UseTables ==
    {[len   |-> n,
      cols  |-> ("signal_density_per_km2" :> col),
      attrs |-> <<>>] :
        <<n, col>> \in UNION {{<<m, c>> :
            c \in UNION {{PrefixColumn(m, k, 1, 0), PrefixColumn(m, m - k, 0, 1)} :
                            k \in 0..(IF m < MaxSignalHexes THEN m ELSE MaxSignalHexes)}} :
            m \in 0..MaxHexes}}

InitUse ==
    /\ pc = "use0"
    /\ gdf \in UseTables
    /\ args \in {[signal_mode |-> m] : m \in SignalModes}
    /\ ret = "none"
    /\ steps = <<>>
    /\ series = <<>>
    /\ zs = <<>>
    /\ failed = <<>>
    /\ files = <<>>

\* use_signal = _should_use_signals(result, signal_mode, city)
Decide ==
    /\ pc = "use0"
    /\ ret' = should_use_signals(gdf, args.signal_mode)
    /\ pc' = "use1"
    /\ UNCHANGED <<gdf, args, steps, series, zs, failed, files>>

NextUse == Decide

SpecUse == InitUse /\ [][NextUse]_vars

\* The number of cells of g with a signal density above 0.
SignalCells(g) ==
    Cardinality({i \in 1..g.len :
        g.cols["signal_density_per_km2"].cells[i].v > 0})

\* C3: mode on gives usable, mode off gives unusable, whatever the data;
\* mode auto gives usable exactly when the cells with a signal density above
\* 0 are at least 5% of the cells (20 * count >= cells, for at least one
\* cell), so exactly 5% is usable and no signal at all is not.
C3_UsabilityDecision ==
    pc = "use1" =>
        /\ args.signal_mode = "on" => ret.val
        /\ args.signal_mode = "off" => ~ret.val
        /\ args.signal_mode = "auto" =>
              (ret.val <=> (gdf.len > 0 /\ 20 * SignalCells(gdf) >= gdf.len))
        /\ (args.signal_mode = "auto" /\ SignalCells(gdf) = 0) => ~ret.val

\* C3 witness: automatic mode decided usable at exactly 5% coverage
\* (1 cell of 20).
C3_Witness ==
    /\ pc = "use1"
    /\ args.signal_mode = "auto"
    /\ gdf.len = 20
    /\ SignalCells(gdf) = 1
    /\ ret.val

(***************************************************************************)
(* Column arithmetic (pandas Series arithmetic; NaN propagates).           *)
(***************************************************************************)
\* k * col, for an integer k.
ScaleCol(col, k) ==
    [den   |-> col.den,
     cells |-> [i \in DOMAIN col.cells |->
                  IF col.cells[i].nan THEN NaN ELSE F(k * col.cells[i].v)]]

\* a + b, cell by cell.
AddCols(a, b) ==
    [den   |-> a.den * b.den,
     cells |-> [i \in DOMAIN a.cells |->
                  IF a.cells[i].nan \/ b.cells[i].nan THEN NaN
                  ELSE F(a.cells[i].v * b.den + b.cells[i].v * a.den)]]

\* col / d, for an integer d # 0; the denominator is kept positive.
DivCol(col, d) ==
    [den   |-> col.den * Abs(d),
     cells |-> [i \in DOMAIN col.cells |->
                  IF col.cells[i].nan THEN NaN
                  ELSE F(IF d < 0 THEN -col.cells[i].v ELSE col.cells[i].v)]]

\* col.fillna(0.0)
Fillna0(col) ==
    [den   |-> col.den,
     cells |-> [i \in DOMAIN col.cells |->
                  IF col.cells[i].nan THEN F(0) ELSE col.cells[i]]]

(***************************************************************************)
(* compute_urbanicity_score (score.py).  A weight is an integer count of   *)
(* 1/WeightDen (0.005): sums inside and outside the 0.01 tolerance of the  *)
(* configuration are representable.                                        *)
(***************************************************************************)
WeightDen == 2 * 100

\* W_INTERSECTION, W_ROAD, W_SIGNAL = 0.50, 0.30, 0.20
DefaultWeights == <<100, 60, 40>>

\* Mutant of WeightsAccepted: the sum is not checked.
WeightsAcceptedAnySum(w) == TRUE

\* _parse_weights: abs(total - 1.0) > 0.01 is rejected.
WeightsAccepted(w) == ~(Abs(w[1] + w[2] + w[3] - WeightDen) * 100 > WeightDen)

\* Mutant of Renormalized: the signal weight is kept when signals are dropped.
RenormalizedKeepsSignal(base) ==
    [int |-> base[1], road |-> base[2], sig |-> base[3], den |-> WeightDen]

\* The weights of the signals-dropped branch: w_int_base / total_no_sig,
\* w_road_base / total_no_sig and 0.0, over the common denominator
\* total_no_sig (kept positive).
Renormalized(base) ==
    LET total_no_sig == base[1] + base[2]
        sgn == IF total_no_sig < 0 THEN -1 ELSE 1
    IN  [int |-> sgn * base[1], road |-> sgn * base[2], sig |-> 0,
         den |-> sgn * total_no_sig]

\* The weights applied: the base weights when signals are used, the
\* renormalized ones otherwise (defined when w_int_base + w_road_base # 0).
EffectiveWeights(base, use_signal) ==
    IF use_signal.val
    THEN [int |-> base[1], road |-> base[2], sig |-> base[3], den |-> WeightDen]
    ELSE Renormalized(base)

\* Mutant of Composite: the signal column is not filled before the sum.
CompositeNoFillna(w, z_int, z_road, z_sig) ==
    DivCol(AddCols(AddCols(ScaleCol(z_int, w.int), ScaleCol(z_road, w.road)),
                   ScaleCol(z_sig, w.sig)),
           w.den)

\* w_int * z_int + w_road * z_road + w_sig * z_sig.fillna(0.0)
Composite(w, z_int, z_road, z_sig) ==
    DivCol(AddCols(AddCols(ScaleCol(z_int, w.int), ScaleCol(z_road, w.road)),
                   ScaleCol(Fillna0(z_sig), w.sig)),
           w.den)

\* compute_urbanicity_score(gdf, city, signal_mode, weights) on a table
\* whose densities are measured in the unit that makes MAD_EPS = eps.
\* weights is "None" or a triple.  Dividing by total_no_sig = 0 raises
\* ZeroDivisionError (the weights are Python floats) and nothing is returned.
compute_urbanicity_score(g, signal_mode, weights, eps) ==
    LET base  == IF weights = <<>> THEN DefaultWeights ELSE weights
        z_int == robust_zscore(g.cols["intersection_density_per_km2"], eps)
        z_rd  == robust_zscore(g.cols["road_density_km_per_km2"], eps)
        z_sg  == robust_zscore(g.cols["signal_density_per_km2"], eps)
        use_signal == should_use_signals(g, signal_mode)
        w     == EffectiveWeights(base, use_signal)
        z_sig == IF use_signal.val THEN z_sg ELSE ConstColumn(g.len, NaN)
        r1    == SetCol(SetCol(SetCol(g, "z_intersection_density", z_int),
                               "z_road_density", z_rd),
                        "z_signal_density", z_sig)
        r2    == SetCol(r1, "urbanicity_score_continuous",
                        Composite(w, z_int, z_rd, z_sig))
        r3    == SetAttr(SetAttr(SetAttr(SetAttr(r2,
                    "w_int_eff", [num |-> w.int, den |-> w.den]),
                    "w_road_eff", [num |-> w.road, den |-> w.den]),
                    "w_sig_eff", [num |-> w.sig, den |-> w.den]),
                    "signals_used", use_signal)
    IN  IF ~use_signal.val /\ base[1] + base[2] = 0
        THEN [raised |-> "ZeroDivisionError", result |-> g]
        ELSE [raised |-> "none", result |-> r3]

(***************************************************************************)
(* SpecScore: compute_urbanicity_score on tables of densities, for every   *)
(* signal mode and every weight triple the configuration accepts.          *)
(***************************************************************************)
MaxTableCells == 3

\* The tables assemble_metrics hands to the score engine: any intersection
\* densities, road densities constant or positive in the first half of the
\* cells, signals in no cell, in the first cell or in every cell.
DensityTables ==
    UNION {{[len   |-> n,
             cols  |-> ("intersection_density_per_km2" :> IntColumn(xs))
                       @@ ("road_density_km_per_km2" :> PrefixColumn(n, r, 1, 0))
                       @@ ("signal_density_per_km2" :> PrefixColumn(n, k, 1, 0)),
             attrs |-> <<>>] :
                xs \in [1..n -> 0..MaxDensity], r \in {n \div 2, n},
                k \in {0, IF n = 0 THEN 0 ELSE 1, n}} :
           n \in 0..MaxTableCells}

\* "None" is the empty tuple.
WeightChoices ==
    {<<>>} \cup {w \in {<<100, 60, 40>>, <<120, 60, 20>>, <<100, 60, 41>>,
                        <<0, 0, 200>>, <<100, -100, 200>>, <<-100, -100, 400>>} :
                    WeightsAccepted(w)}

InitScore ==
    /\ pc = "score0"
    /\ gdf \in DensityTables
    /\ args \in {[signal_mode |-> m, weights |-> w, eps |-> e] :
                    m \in SignalModes, w \in WeightChoices, e \in {0, 1}}
    /\ ret = "none"
    /\ steps = <<>>
    /\ series = <<>>
    /\ zs = <<>>
    /\ failed = <<>>
    /\ files = <<>>

\* hexes = compute_urbanicity_score(hexes, city, signal_mode, weights)
Score ==
    /\ pc = "score0"
    /\ LET r == compute_urbanicity_score(gdf, args.signal_mode, args.weights, args.eps)
       IN  /\ ret' = r.raised
           /\ gdf' = r.result
           /\ pc' = IF r.raised = "none" THEN "scored" ELSE "raised"
    /\ UNCHANGED <<args, steps, series, zs, failed, files>>

NextScore == Score

SpecScore == InitScore /\ [][NextScore]_vars

\* The decision to drop signals, read off the arguments and the densities:
\* mode off, or mode auto with fewer than 5% of the cells holding a signal.
SignalsDropped(g, signal_mode) ==
    \/ signal_mode = "off"
    \/ /\ signal_mode = "auto"
       /\ ~(g.len > 0 /\ 20 * SignalCells(g) >= g.len)

\* C1: for every accepted weight triple and every table, when signals are
\* dropped compute_urbanicity_score completes, the effective weights
\* satisfy w_int_eff + w_road_eff = 1.0 and w_sig_eff = 0.0, and
\* z_signal_density is NaN in every cell.
C1_DroppedWeightsSumToOne ==
    (pc \in {"scored", "raised"} /\ SignalsDropped(gdf, args.signal_mode)) =>
        /\ pc = "scored"
        /\ gdf.attrs["w_int_eff"].den = gdf.attrs["w_road_eff"].den
        /\ gdf.attrs["w_int_eff"].num + gdf.attrs["w_road_eff"].num
              = gdf.attrs["w_int_eff"].den
        /\ gdf.attrs["w_sig_eff"].num = 0
        /\ \A i \in 1..gdf.len : gdf.cols["z_signal_density"].cells[i].nan

\* C2: the composite score of every cell is
\* w_int_eff*z_int + w_road_eff*z_road + w_sig_eff*z_sig with an undefined
\* z_sig counted as 0, and it is finite; when signals are unusable the
\* signal term is 0 and the stored z_signal_density is NaN in every cell;
\* when they are usable the effective weights are the base weights and no
\* stored z_signal_density is NaN.
C2_CompositeIsWeightedSum ==
    pc = "scored" =>
        LET zi   == gdf.cols["z_intersection_density"]
            zr   == gdf.cols["z_road_density"]
            zg   == gdf.cols["z_signal_density"]
            sc   == gdf.cols["urbanicity_score_continuous"]
            wi   == gdf.attrs["w_int_eff"]
            wr   == gdf.attrs["w_road_eff"]
            wg   == gdf.attrs["w_sig_eff"]
            base == IF args.weights = <<>> THEN DefaultWeights ELSE args.weights
            sigTerm(i) == IF zg.cells[i].nan THEN 0 ELSE wg.num * zg.cells[i].v
        IN  /\ wi.den = wr.den /\ wr.den = wg.den
            /\ sc.den = wi.den * zi.den * zr.den * zg.den
            /\ \A i \in 1..gdf.len :
                  /\ ~sc.cells[i].nan
                  /\ sc.cells[i].v =
                        wi.num * zi.cells[i].v * zr.den * zg.den
                        + wr.num * zr.cells[i].v * zi.den * zg.den
                        + sigTerm(i) * zi.den * zr.den
                  /\ ~gdf.attrs["signals_used"].val =>
                        /\ sigTerm(i) = 0
                        /\ zg.cells[i].nan
                  /\ gdf.attrs["signals_used"].val => ~zg.cells[i].nan
            /\ gdf.attrs["signals_used"].val =>
                  /\ wi = [num |-> base[1], den |-> WeightDen]
                  /\ wr = [num |-> base[2], den |-> WeightDen]
                  /\ wg = [num |-> base[3], den |-> WeightDen]

\* C2 witness: signals were judged unusable, z_signal_density is NaN in
\* three cells and the composite score of some cell is not 0.
C2_Witness ==
    /\ pc = "scored"
    /\ gdf.len = 3
    /\ ~gdf.attrs["signals_used"].val
    /\ \A i \in 1..gdf.len : gdf.cols["z_signal_density"].cells[i].nan
    /\ \E i \in 1..gdf.len :
          /\ ~gdf.cols["urbanicity_score_continuous"].cells[i].nan
          /\ gdf.cols["urbanicity_score_continuous"].cells[i].v # 0

(***************************************************************************)
(* assign_urbanicity_band (score.py).  A quantile level is an integer      *)
(* count of 1/QuantileDen (0.05); a threshold of a score column over den   *)
(* is a numerator over den * QuantileDen.                                  *)
(***************************************************************************)
QuantileDen == 4 * 5

\* QUANTILE_HIGH = 0.70 and QUANTILE_LOW = 0.30, in twentieths.
QUANTILE_HIGH == 14
QUANTILE_LOW == 6

\* The defined values of a column, as a sequence of numerators.
Finite(col) ==
    LET kept == SelectSeq(col.cells, LAMBDA c : ~c.nan)
    IN  [i \in 1..Len(kept) |-> kept[i].v]

\* Mutant of quantile: the lower neighbour is taken, nothing interpolated.
quantileLower(col, level) ==
    LET xs == Finite(col)
        m  == Len(xs)
    IN  IF m = 0 THEN NaN
        ELSE F(KthSmallest(xs, (level * (m - 1)) \div QuantileDen + 1) * QuantileDen)

\* float(scores.quantile(q)) for q = level/QuantileDen, times QuantileDen:
\* NaN cells are skipped; the position level*(m-1)/QuantileDen among the m
\* sorted values is interpolated linearly between its two neighbours
\* (pandas' default); NaN when no value is defined.
quantile(col, level) ==
    LET xs  == Finite(col)
        m   == Len(xs)
        pos == level * (m - 1)
        lo  == pos \div QuantileDen
        a   == KthSmallest(xs, lo + 1)
        b   == KthSmallest(xs, IF lo + 2 > m THEN m ELSE lo + 2)
    IN  IF m = 0 THEN NaN
        ELSE F(a * QuantileDen + (b - a) * (pos % QuantileDen))

\* x >= y and x <= y on floats: False when either side is NaN.
Ge(x, y) == ~x.nan /\ ~y.nan /\ x.v >= y.v

\* Mutant of Le: the comparison is strict.
LeStrict(x, y) == ~x.nan /\ ~y.nan /\ x.v < y.v

Le(x, y) == ~x.nan /\ ~y.nan /\ x.v <= y.v

\* Mutant of band: the high threshold is exclusive.
bandHighExclusive(score, t_high, t_low) ==
    IF Ge(score, t_high) /\ score.v # t_high.v THEN 3
    ELSE IF Le(score, t_low) THEN 1
    ELSE 2

\* Mutant of band: the labels of the outer bands are exchanged.
bandInverted(score, t_high, t_low) ==
    IF Ge(score, t_high) THEN 1
    ELSE IF Le(score, t_low) THEN 3
    ELSE 2

\* Mutant of band: an undefined score is left unbanded (0).
bandNaNUnbanded(score, t_high, t_low) ==
    IF score.nan THEN 0
    ELSE IF Ge(score, t_high) THEN 3
    ELSE IF Le(score, t_low) THEN 1
    ELSE 2

\* _band(score), with score and both thresholds over one denominator.
band(score, t_high, t_low) ==
    IF Ge(score, t_high) THEN 3
    ELSE IF Le(score, t_low) THEN 1
    ELSE 2

\* assign_urbanicity_band(gdf, city, q_high, q_low)
assign_urbanicity_band(g, q_high, q_low) ==
    LET scores == g.cols["urbanicity_score_continuous"]
        t_high == quantile(scores, q_high)
        t_low  == quantile(scores, q_low)
        tden   == scores.den * QuantileDen
        scaled(i) == IF scores.cells[i].nan THEN NaN
                     ELSE F(scores.cells[i].v * QuantileDen)
        bands  == [den   |-> 1,
                   cells |-> [i \in 1..g.len |-> F(band(scaled(i), t_high, t_low))]]
    IN  SetCol(SetCol(SetCol(g, "urbanicity_band_3_2_1", bands),
                      "t_low_q30", [den |-> tden, cells |-> [i \in 1..g.len |-> t_low]]),
               "t_high_q70", [den |-> tden, cells |-> [i \in 1..g.len |-> t_high]])

(***************************************************************************)
(* SpecBand: assign_urbanicity_band on score columns with defined and      *)
(* undefined cells, for quantile levels in either order.                   *)
(***************************************************************************)
ScoreCells == {NaN} \cup {F(x) : x \in -1..MaxDensity}

ScoreTables ==
    UNION {{[len   |-> n,
             cols  |-> ("urbanicity_score_continuous" :> [den |-> 1, cells |-> c]),
             attrs |-> <<>>] : c \in [1..n -> ScoreCells]} :
           n \in 0..MaxTableCells}

QuantileLevels == {0, QUANTILE_LOW, 10, QUANTILE_HIGH, QuantileDen}

InitBand ==
    /\ pc = "band0"
    /\ gdf \in ScoreTables
    /\ args \in {[q_high |-> h, q_low |-> l] : h, l \in QuantileLevels}
    /\ ret = "none"
    /\ steps = <<>>
    /\ series = <<>>
    /\ zs = <<>>
    /\ failed = <<>>
    /\ files = <<>>

\* hexes = assign_urbanicity_band(hexes, city, q_high, q_low)
Band ==
    /\ pc = "band0"
    /\ gdf' = assign_urbanicity_band(gdf, args.q_high, args.q_low)
    /\ pc' = "banded"
    /\ UNCHANGED <<args, ret, steps, series, zs, failed, files>>

NextBand == Band

SpecBand == InitBand /\ [][NextBand]_vars

\* Cell i's score, band and the two thresholds, over one denominator.
ScoreOf(i) == gdf.cols["urbanicity_score_continuous"].cells[i].v * QuantileDen

BandOf(i) == gdf.cols["urbanicity_band_3_2_1"].cells[i].v

THigh(i) == gdf.cols["t_high_q70"].cells[i]

TLow(i) == gdf.cols["t_low_q30"].cells[i]

Scored(i) == ~gdf.cols["urbanicity_score_continuous"].cells[i].nan

\* C4 as stated: a cell whose score equals the high threshold gets band 3,
\* a cell whose score equals the low threshold gets band 1, a cell whose
\* score is strictly between the thresholds gets band 2, also when the two
\* thresholds coincide.
C4_Original ==
    pc = "banded" =>
        \A i \in 1..gdf.len : (Scored(i) /\ ~THigh(i).nan) =>
            /\ ScoreOf(i) = THigh(i).v => BandOf(i) = 3
            /\ ScoreOf(i) = TLow(i).v => BandOf(i) = 1
            /\ (TLow(i).v < ScoreOf(i) /\ ScoreOf(i) < THigh(i).v) => BandOf(i) = 2

\* C4 as amended: a cell whose score equals the high threshold gets band 3;
\* a cell whose score equals the low threshold gets band 1 unless its score
\* also reaches the high threshold (then the first test wins and it gets
\* band 3); a cell whose score is strictly between the thresholds gets
\* band 2.
C4_ThresholdTies ==
    pc = "banded" =>
        \A i \in 1..gdf.len : (Scored(i) /\ ~THigh(i).nan) =>
            /\ ScoreOf(i) = THigh(i).v => BandOf(i) = 3
            /\ (ScoreOf(i) = TLow(i).v /\ ScoreOf(i) < THigh(i).v) => BandOf(i) = 1
            /\ (ScoreOf(i) = TLow(i).v /\ ScoreOf(i) >= THigh(i).v) => BandOf(i) = 3
            /\ (TLow(i).v < ScoreOf(i) /\ ScoreOf(i) < THigh(i).v) => BandOf(i) = 2

\* C4 witness: one cell sits on the low threshold, one strictly between
\* the thresholds and one on the high threshold, banded 1, 2 and 3.
C4_Witness ==
    /\ pc = "banded"
    /\ \E i, j, k \in 1..gdf.len :
          /\ Scored(i) /\ Scored(j) /\ Scored(k)
          /\ ScoreOf(i) = TLow(i).v /\ BandOf(i) = 1
          /\ TLow(j).v < ScoreOf(j) /\ ScoreOf(j) < THigh(j).v /\ BandOf(j) = 2
          /\ ScoreOf(k) = THigh(k).v /\ BandOf(k) = 3

\* C5: after assign_urbanicity_band every cell has one band and it is 1, 2
\* or 3, for every score column (NaN scores included) and thresholds in
\* any order.
C5_BandInRange ==
    pc = "banded" =>
        /\ Len(gdf.cols["urbanicity_band_3_2_1"].cells) = gdf.len
        /\ \A i \in 1..gdf.len :
              /\ ~gdf.cols["urbanicity_band_3_2_1"].cells[i].nan
              /\ BandOf(i) \in {1, 2, 3}

\* C5 witness: a table with an undefined score, banded with the low level
\* above the high level.
C5_Witness ==
    /\ pc = "banded"
    /\ args.q_low > args.q_high
    /\ \E i, j \in 1..gdf.len :
          /\ ~Scored(i) /\ BandOf(i) = 2
          /\ Scored(j) /\ TLow(j).v > THigh(j).v /\ BandOf(j) \in {1, 3}

(***************************************************************************)
(* validate_city_output (validate.py): the failures it collects, in order, *)
(* each named by its check (and its column or finding).                    *)
(***************************************************************************)
\* The failures appended when cond holds.
FailIf(cond, name) == IF cond THEN <<name>> ELSE <<>>

\* Python's None.
None == [type |-> "NoneType"]

\* gdf.attrs.get(key)
AttrGet(g, key) == IF key \in DOMAIN g.attrs THEN g.attrs[key] ELSE None

\* The number of cells of the column that are defined and satisfy P.
CountCells(col, P(_)) ==
    Cardinality({i \in DOMAIN col.cells : ~col.cells[i].nan /\ P(col.cells[i].v)})

\* E1.2 on one column: int((gdf[col] < 0).sum()) > 0
NegativeDensity(g, col) ==
    FailIf(HasCol(g, col) /\ CountCells(g.cols[col], LAMBDA v : v < 0) > 0,
           <<"E1.2", col>>)

\* E1.3: a band outside {1, 2, 3} (a NaN band is outside).
InvalidBand(g) ==
    FailIf(/\ HasCol(g, "urbanicity_band_3_2_1")
           /\ \E i \in DOMAIN g.cols["urbanicity_band_3_2_1"].cells :
                 LET b == g.cols["urbanicity_band_3_2_1"].cells[i]
                 IN  b.nan \/ b.v \notin {1, 2, 3},
           <<"E1.3">>)

\* Mutant of ScoresNotFinite: the undefined share of an empty table fails.
ScoresNotFiniteOnEmpty(g) ==
    FailIf(/\ HasCol(g, "urbanicity_score_continuous")
           /\ \/ g.len = 0
              \/ 100 * CountCells(g.cols["urbanicity_score_continuous"], LAMBDA v : TRUE)
                    < 99 * g.len,
           <<"E1.4">>)

\* Mutant of ScoresNotFinite: a share of exactly 99% fails too.
ScoresNotFiniteAtBound(g) ==
    FailIf(/\ HasCol(g, "urbanicity_score_continuous")
           /\ g.len > 0
           /\ 100 * CountCells(g.cols["urbanicity_score_continuous"], LAMBDA v : TRUE)
                 <= 99 * g.len,
           <<"E1.4">>)

\* E1.4: float(np.isfinite(scores).mean()) < 0.99; the mean of no cells is
\* NaN and NaN < 0.99 is False.
ScoresNotFinite(g) ==
    FailIf(/\ HasCol(g, "urbanicity_score_continuous")
           /\ g.len > 0
           /\ 100 * CountCells(g.cols["urbanicity_score_continuous"], LAMBDA v : TRUE)
                 < 99 * g.len,
           <<"E1.4">>)

\* "x is False" / "x is True": identity with the Python singletons, which
\* no numpy.bool_ and no None has.
IsPyFalse(x) == x # None /\ x.type = "bool" /\ ~x.val

IsPyTrue(x) == x # None /\ x.type = "bool" /\ x.val

\* E1.5: the signal consistency checks.  abs(w_sig_eff) > 1e-9 is
\* "w_sig_eff # 0" for a weight whose denominator is below 10^9.
SignalConsistency(g) ==
    LET signals_used == AttrGet(g, "signals_used")
        w_sig_eff    == AttrGet(g, "w_sig_eff")
        hasz         == HasCol(g, "z_signal_density")
        z            == g.cols["z_signal_density"].cells
    IN  IF IsPyFalse(signals_used)
        THEN FailIf(hasz /\ \E i \in DOMAIN z : ~z[i].nan, <<"E1.5", "z_signal_density">>)
             \o FailIf(w_sig_eff # None /\ w_sig_eff.num # 0, <<"E1.5", "w_sig_eff">>)
        ELSE IF IsPyTrue(signals_used)
        THEN FailIf(hasz /\ \A i \in DOMAIN z : z[i].nan, <<"E1.5", "all-NaN">>)
        ELSE <<>>

\* E1.6 and E1.7: float((gdf[col] > 0).mean()) < 0.30 on a non-empty table.
LowCoverage(g, col, name) ==
    FailIf(/\ HasCol(g, col)
           /\ g.len > 0
           /\ 100 * CountCells(g.cols[col], LAMBDA v : v > 0) < 30 * g.len,
           <<name>>)

\* validate_city_output(gdf, city_slug): every check runs; the error is
\* raised at the end when the list is not empty.
validate_city_output(g) ==
    LET failures ==
            FailIf(g.len = 0, <<"E1.1">>)
            \o NegativeDensity(g, "intersection_density_per_km2")
            \o NegativeDensity(g, "road_density_km_per_km2")
            \o NegativeDensity(g, "signal_density_per_km2")
            \o InvalidBand(g)
            \o ScoresNotFinite(g)
            \o SignalConsistency(g)
            \o LowCoverage(g, "intersection_density_per_km2", "E1.6")
            \o LowCoverage(g, "road_density_km_per_km2", "E1.7")
    IN  [raised   |-> IF failures # <<>> THEN "UrbanicityValidationError" ELSE "none",
         failures |-> failures]

(***************************************************************************)
(* SpecValidate: validate_city_output on finished tables, consistent and   *)
(* engineered: each column is sound or carries one fault, the metadata is  *)
(* absent, written by "on"/"off" (Python bool) or by "auto" (numpy.bool_). *)
(***************************************************************************)
MaxValidateCells == 2

\* A column of n cells holding good, its first cell replaced by bad when
\* faulty (and the table is not empty).
Engineered(n, good, bad, faulty) ==
    [den |-> 1, cells |-> [i \in 1..n |-> IF faulty /\ i = 1 THEN bad ELSE good]]

SignalsUsedValues == {PyBool(TRUE), PyBool(FALSE), NpBool(TRUE), NpBool(FALSE)}

\* The metadata a table may carry: none (never scored), or the usability
\* flag with an effective signal weight of 0 or 0.2.
ValidateAttrs ==
    {<<>>} \cup {("signals_used" :> u) @@ ("w_sig_eff" :> [num |-> w, den |-> WeightDen]) :
                    u \in SignalsUsedValues, w \in {0, 40}}

\* z_signal_density: NaN in every cell, defined in every cell, or defined
\* in the first cell only.
ZSignalColumns(n) ==
    {ConstColumn(n, NaN), ConstColumn(n, F(0)), Engineered(n, NaN, F(1), TRUE)}

ValidateTables ==
    UNION {{[len   |-> n,
             cols  |-> ("intersection_density_per_km2" :> Engineered(n, F(di), F(-1), ni))
                       @@ ("road_density_km_per_km2" :> Engineered(n, F(dr), F(-1), nr))
                       @@ ("signal_density_per_km2" :> Engineered(n, F(0), F(-1), ns))
                       @@ ("urbanicity_band_3_2_1" :> Engineered(n, F(2), F(0), bb))
                       @@ ("urbanicity_score_continuous" :> Engineered(n, F(0), NaN, sn))
                       @@ ("z_signal_density" :> z),
             attrs |-> a] :
                di \in {0, 1}, dr \in {0, 1}, ni \in BOOLEAN, nr \in BOOLEAN,
                ns \in BOOLEAN, bb \in BOOLEAN, sn \in BOOLEAN,
                z \in ZSignalColumns(n), a \in ValidateAttrs} :
           n \in 0..MaxValidateCells}

InitValidate ==
    /\ pc = "validate0"
    /\ gdf \in ValidateTables
    /\ args = <<>>
    /\ ret = "none"
    /\ steps = <<>>
    /\ series = <<>>
    /\ zs = <<>>
    /\ failed = <<>>
    /\ files = <<>>

\* validate_city_output(gdf, city_slug)
Validate ==
    /\ pc = "validate0"
    /\ ret' = validate_city_output(gdf)
    /\ pc' = "validated"
    /\ UNCHANGED <<gdf, args, steps, series, zs, failed, files>>

NextValidate == Validate

SpecValidate == InitValidate /\ [][NextValidate]_vars

\* The checks E1.1 to E1.7 as documented, decided on the table itself: the
\* names of the checks the table violates.
DensityColumns ==
    {"intersection_density_per_km2", "road_density_km_per_km2", "signal_density_per_km2"}

SaysUnusable(g) == AttrGet(g, "signals_used") # None /\ ~AttrGet(g, "signals_used").val

SaysUsable(g) == AttrGet(g, "signals_used") # None /\ AttrGet(g, "signals_used").val

SomeZSignalDefined(g) ==
    \E i \in DOMAIN g.cols["z_signal_density"].cells :
        ~g.cols["z_signal_density"].cells[i].nan

SignalWeightNotZero(g) ==
    AttrGet(g, "w_sig_eff") # None /\ AttrGet(g, "w_sig_eff").num # 0

Positive(g, col) == Cardinality({i \in 1..g.len : g.cols[col].cells[i].v > 0})

ViolatedChecks(g) ==
    {c \in {"E1.1", "E1.2", "E1.3", "E1.4", "E1.5", "E1.6", "E1.7"} :
        \/ c = "E1.1" /\ g.len = 0
        \/ c = "E1.2" /\ \E col \in DensityColumns, i \in 1..g.len :
                            g.cols[col].cells[i].v < 0
        \/ c = "E1.3" /\ \E i \in 1..g.len :
                            g.cols["urbanicity_band_3_2_1"].cells[i].v \notin {1, 2, 3}
        \/ c = "E1.4" /\ 100 * Cardinality({i \in 1..g.len :
                            ~g.cols["urbanicity_score_continuous"].cells[i].nan})
                            < 99 * g.len
        \/ c = "E1.5" /\ \/ SaysUnusable(g) /\ (SomeZSignalDefined(g) \/ SignalWeightNotZero(g))
                         \/ SaysUsable(g) /\ ~SomeZSignalDefined(g)
        \/ c = "E1.6" /\ 100 * Positive(g, "intersection_density_per_km2") < 30 * g.len
        \/ c = "E1.7" /\ 100 * Positive(g, "road_density_km_per_km2") < 30 * g.len}

\* The checks named in the raised error.
ListedChecks == {ret.failures[i][1] : i \in DOMAIN ret.failures}

\* C8: validate_city_output raises exactly when at least one check is
\* violated, the error lists every violated check, a table with a negative
\* density raises with E1.2 listed, and a table violating no check returns
\* normally.
C8_RaisesExactlyOnViolations ==
    pc = "validated" =>
        /\ (ret.raised = "UrbanicityValidationError") <=> (ViolatedChecks(gdf) # {})
        /\ ListedChecks = ViolatedChecks(gdf)
        /\ (\E col \in DensityColumns, i \in 1..gdf.len : gdf.cols[col].cells[i].v < 0)
              => (ret.raised = "UrbanicityValidationError" /\ "E1.2" \in ListedChecks)
        /\ ViolatedChecks(gdf) = {} => ret.raised = "none"

\* C9: when the metadata says signals are unusable (whoever wrote it, the
\* automatic mode included) an E1.5 violation is reported whenever some
\* z_signal_density is defined or the effective signal weight is not 0;
\* when it says usable, an E1.5 violation is reported when
\* z_signal_density is undefined in all cells.
C9_SignalConsistencyReported ==
    pc = "validated" =>
        /\ (SaysUnusable(gdf) /\ (SomeZSignalDefined(gdf) \/ SignalWeightNotZero(gdf)))
              => "E1.5" \in ListedChecks
        /\ (SaysUsable(gdf) /\ ~SomeZSignalDefined(gdf)) => "E1.5" \in ListedChecks

(***************************************************************************)
(* run_city (pipeline.py): the stages of one city run, in program order.   *)
(* A provider stage that reads OpenStreetMap either returns or raises; the *)
(* densities the metric stage computes are an input of the run.            *)
(***************************************************************************)
Writers == {"write_parquet", "write_summary", "write_geojson"}

CityRuns ==
    {[densities |-> t, write_geojson |-> w, eps |-> e] :
        t \in DensityTables, w \in BOOLEAN, e \in {0, 1}}

\* config.OUTPUT_COLUMNS
OUTPUT_COLUMNS ==
    <<"city", "h3_res", "h3_index", "hex_centroid_lat", "hex_centroid_lon",
      "hex_area_km2", "intersection_density_per_km2", "road_density_km_per_km2",
      "signal_density_per_km2", "z_intersection_density", "z_road_density",
      "z_signal_density", "urbanicity_score_continuous", "urbanicity_band_3_2_1",
      "t_low_q30", "t_high_q70", "field_semantics">>

\* The columns build_hex_geodataframe gives the cell table.
HexColumns ==
    {"h3_index", "h3_res", "city", "hex_centroid_lat", "hex_centroid_lon",
     "geometry", "geometry_wgs84", "hex_area_km2"}

\* Mutant of select_output_columns: every column the table has, in the
\* table's own order of creation, geometry included.
select_table_columns(g) ==
    [columns |-> SelectSeq(<<"h3_index", "h3_res", "city", "hex_centroid_lat",
                             "hex_centroid_lon", "geometry", "geometry_wgs84">>
                           \o SubSeq(OUTPUT_COLUMNS, 6, 17),
                           LAMBDA c : HasCol(g, c)),
     missing |-> {}]

\* _select_output_columns(gdf): the canonical columns the table has, in
\* canonical order; the others are named in a warning.
select_output_columns(g) ==
    [columns |-> SelectSeq(OUTPUT_COLUMNS, LAMBDA c : HasCol(g, c)),
     missing |-> {OUTPUT_COLUMNS[i] : i \in DOMAIN OUTPUT_COLUMNS} \ DOMAIN g.cols]

Init ==
    /\ pc = "city0"
    /\ gdf = NoTable
    /\ args \in CityRuns
    /\ ret = "none"
    /\ steps = <<>>
    /\ series = <<>>
    /\ zs = <<>>
    /\ failed = <<>>
    /\ files = <<>>

\* A stage that returns (ok) or raises: the exception leaves run_city.
Stage(from, name, to, ok) ==
    /\ pc = from
    /\ steps' = Append(steps, name)
    /\ pc' = IF ok THEN to ELSE "failed"
    /\ ret' = IF ok THEN ret ELSE "Exception"

\* Step 1: G = load_graph(city, force=force)
LoadGraph ==
    /\ \E ok \in BOOLEAN : Stage("city0", "load_graph", "graph", ok)
    /\ UNCHANGED <<gdf, args, series, zs, failed, files>>

\* Step 2: nodes, edges = load_nodes_edges(city, G=G, force=force)
LoadNodesEdges ==
    /\ \E ok \in BOOLEAN : Stage("graph", "load_nodes_edges", "nodes_edges", ok)
    /\ UNCHANGED <<gdf, args, series, zs, failed, files>>

\* Step 3: intersections = compute_intersection_nodes(city, G, nodes, ...)
ComputeIntersectionNodes ==
    /\ Stage("nodes_edges", "compute_intersection_nodes", "intersections", TRUE)
    /\ UNCHANGED <<gdf, args, series, zs, failed, files>>

\* Step 4: signals_wgs84 = load_signals(city, force=force)
LoadSignals ==
    /\ \E ok \in BOOLEAN : Stage("intersections", "load_signals", "signals", ok)
    /\ UNCHANGED <<gdf, args, series, zs, failed, files>>

\* Step 5: boundary, polyfill, hexes = build_hex_geodataframe(...)
BuildHexes ==
    /\ Stage("signals", "build_hex_geodataframe", "hexes", TRUE)
    /\ gdf' = [NoTable EXCEPT !.len = args.densities.len,
                              !.cols = [c \in HexColumns |->
                                          ConstColumn(args.densities.len, F(1))]]
    /\ UNCHANGED <<args, series, zs, failed, files>>

\* Step 6: the three densities and hexes = assemble_metrics(...)
ComputeMetrics ==
    /\ Stage("hexes", "assemble_metrics", "metrics", TRUE)
    /\ gdf' = [gdf EXCEPT !.cols = args.densities.cols @@ @]
    /\ UNCHANGED <<args, series, zs, failed, files>>

\* Step 7: hexes = compute_urbanicity_score(hexes, city)
ScoreCity ==
    /\ pc = "metrics"
    /\ steps' = Append(steps, "compute_urbanicity_score")
    /\ LET r == compute_urbanicity_score(gdf, "auto", <<>>, args.eps)
       IN  /\ ret' = r.raised
           /\ gdf' = r.result
           /\ pc' = IF r.raised = "none" THEN "scored7" ELSE "failed"
    /\ UNCHANGED <<args, series, zs, failed, files>>

\* Step 7: hexes = assign_urbanicity_band(hexes, city)
BandCity ==
    /\ Stage("scored7", "assign_urbanicity_band", "banded7", TRUE)
    /\ gdf' = assign_urbanicity_band(gdf, QUANTILE_HIGH, QUANTILE_LOW)
    /\ UNCHANGED <<args, series, zs, failed, files>>

\* Step 8: write_parquet(hexes, city)
WriteParquet ==
    /\ Stage("banded7", "write_parquet", "parquet", TRUE)
    /\ files' = ("parquet" :> select_output_columns(gdf)) @@ files
    /\ UNCHANGED <<gdf, args, series, zs, failed>>

\* Step 8: write_summary(hexes, city)
WriteSummary ==
    /\ Stage("parquet", "write_summary", "summary", TRUE)
    /\ UNCHANGED <<gdf, args, series, zs, failed, files>>

\* Step 8: if write_geojson: _write_geojson(hexes, city)
WriteGeojson ==
    /\ args.write_geojson
    /\ Stage("summary", "write_geojson", "geojson", TRUE)
    /\ files' = IF HasCol(gdf, "geometry_wgs84")
                THEN ("geojson" :> select_output_columns(gdf)) @@ files
                ELSE files
    /\ UNCHANGED <<gdf, args, series, zs, failed>>

\* return hexes
Return ==
    /\ pc = IF args.write_geojson THEN "geojson" ELSE "summary"
    /\ pc' = "done"
    /\ UNCHANGED <<gdf, args, ret, steps, series, zs, failed, files>>

Next ==
    \/ LoadGraph
    \/ LoadNodesEdges
    \/ ComputeIntersectionNodes
    \/ LoadSignals
    \/ BuildHexes
    \/ ComputeMetrics
    \/ ScoreCity
    \/ BandCity
    \/ WriteParquet
    \/ WriteSummary
    \/ WriteGeojson
    \/ Return

Spec == Init /\ [][Next]_vars

FirstStep(name) ==
    IF \E i \in DOMAIN steps : steps[i] = name
    THEN CHOOSE i \in DOMAIN steps :
            steps[i] = name /\ \A j \in 1..(i - 1) : steps[j] # name
    ELSE 0

\* C10: in every city run the stages happen in the order density
\* aggregation, scoring, band assignment, validation, output writing: the
\* validator has run on the banded table before any writer is called, and
\* a table that fails validation fails the run instead of being written.
C10_ValidatedBeforeWritten ==
    \A i \in DOMAIN steps : steps[i] \in Writers =>
        /\ 0 < FirstStep("assemble_metrics")
        /\ FirstStep("assemble_metrics") < FirstStep("compute_urbanicity_score")
        /\ FirstStep("compute_urbanicity_score") < FirstStep("assign_urbanicity_band")
        /\ FirstStep("assign_urbanicity_band") < FirstStep("validate_city_output")
        /\ FirstStep("validate_city_output") < i
        /\ validate_city_output(gdf).raised = "none"

(***************************************************************************)
(* main (cli.py): the command line is parsed, then run_city is called once *)
(* per city.  A command line is [cities, signals, q_low, q_high, weights,  *)
(* no_geojson]: cities is the comma-separated tokens as typed ("all"       *)
(* alone stands for every city),                                           *)
(* the quantiles are levels over QuantileDen, weights is "None" (<<>>) or  *)
(* a triple over WeightDen.  steps logs the calls of run_city.             *)
(***************************************************************************)
MaxCities == 3

ALL_CITY_SLUGS == <<"seattle", "los_angeles", "austin", "chicago", "boston">>

\* raw.strip().lower().replace("-", "_") on the slugs typed in the model.
normalise_slug(raw) ==
    CASE raw = "los-angeles" -> "los_angeles"
      [] raw = "Seattle"     -> "seattle"
      [] OTHER               -> raw

\* _parse_cities: the list of slugs, or ArgumentTypeError on an unknown one.
parse_cities(value) ==
    IF value = <<"all">> THEN [raised |-> "none", slugs |-> ALL_CITY_SLUGS]
    ELSE LET slugs == [i \in DOMAIN value |-> normalise_slug(value[i])]
         IN  IF \E i \in DOMAIN slugs : slugs[i] \notin Range(ALL_CITY_SLUGS)
             THEN [raised |-> "ArgumentTypeError", slugs |-> <<>>]
             ELSE [raised |-> "none", slugs |-> slugs]

\* parser.parse_args and _parse_cities: what argparse refuses (exit status 2).
ArgsAccepted(a) ==
    /\ a.signals \in {"on", "off", "auto"}
    /\ a.weights = <<>> \/ WeightsAccepted(a.weights)
    /\ parse_cities(a.cities).raised = "none"

\* The parameters of run_city and the keywords main calls it with.
RunCityParameters == {"city", "h3_res", "buffer_m", "write_geojson", "force"}

MainKeywords ==
    {"city", "h3_res", "buffer_m", "signal_mode", "weights", "q_low", "q_high",
     "emit_geojson", "force"}

\* The outcomes of the call run_city(**keywords) made for command line a:
\* a keyword that is no parameter raises TypeError before the body runs;
\* otherwise the body runs with the settings it passes to the score engine
\* and the band assigner (their defaults), and a provider may raise.
run_city_call(keywords, a) ==
    IF keywords \subseteq RunCityParameters
    THEN {[raised |-> e, started |-> TRUE, signal_mode |-> "auto", weights |-> <<>>,
           q_low |-> QUANTILE_LOW, q_high |-> QUANTILE_HIGH] :
              e \in {"none", "Exception"}}
    ELSE {[raised |-> "TypeError", started |-> FALSE, signal_mode |-> "", weights |-> <<>>,
           q_low |-> 0, q_high |-> 0]}

\* Mutant of ExitStatus: failures do not change the exit status.
ExitStatusIgnoresFailures(failed_cities) == "None"

\* if failed: sys.exit(1)
ExitStatus(failed_cities) == IF failed_cities # <<>> THEN "SystemExit(1)" ELSE "None"

RawSlugs == {"seattle", "los-angeles", "gotham"}

CommandLines ==
    {[cities |-> c, signals |-> m, q_low |-> q[1], q_high |-> q[2], weights |-> w,
      no_geojson |-> g, city_slugs |-> <<>>] :
        c \in {<<"all">>} \cup UNION {[1..n -> RawSlugs] : n \in 1..MaxCities},
        m \in {"on", "off", "auto", "sometimes"},
        q \in {<<QUANTILE_LOW, QUANTILE_HIGH>>, <<QUANTILE_HIGH, QUANTILE_LOW>>,
               <<10, 10>>, <<0, QUANTILE_HIGH>>, <<QUANTILE_LOW, QuantileDen + 5>>},
        w \in {<<>>, <<100, 60, 40>>, <<100, 60, 41>>, <<100, 60, 45>>, <<100, 60, 30>>},
        g \in BOOLEAN}

InitMain ==
    /\ pc = "main0"
    /\ args \in CommandLines
    /\ gdf = NoTable
    /\ ret = "none"
    /\ steps = <<>>
    /\ series = <<>>
    /\ zs = <<>>
    /\ failed = <<>>
    /\ files = <<>>

\* args = parser.parse_args(argv); city_slugs = _parse_cities(args.cities)
ParseArgs ==
    /\ pc = "main0"
    /\ IF ArgsAccepted(args)
       THEN /\ args' = [args EXCEPT !.city_slugs = parse_cities(args.cities).slugs]
            /\ pc' = "loop"
            /\ ret' = ret
       ELSE /\ pc' = "exited"
            /\ ret' = "SystemExit(2)"
            /\ args' = args
    /\ UNCHANGED <<gdf, steps, series, zs, failed, files>>

\* for slug in city_slugs: try: run_city(...) except Exception: failed.append(slug)
RunCity ==
    /\ pc = "loop"
    /\ Len(steps) < Len(args.city_slugs)
    /\ LET slug == args.city_slugs[Len(steps) + 1]
       IN  \E r \in run_city_call(MainKeywords, args) :
              /\ steps' = Append(steps, [slug |-> slug, run |-> r])
              /\ failed' = IF r.raised # "none" THEN Append(failed, slug) ELSE failed
    /\ UNCHANGED <<pc, gdf, args, ret, series, zs, files>>

\* if failed: sys.exit(1) else: return
Finish ==
    /\ pc = "loop"
    /\ Len(steps) = Len(args.city_slugs)
    /\ ret' = ExitStatus(failed)
    /\ pc' = "exited"
    /\ UNCHANGED <<gdf, args, steps, series, zs, failed, files>>

NextMain == ParseArgs \/ RunCity \/ Finish

SpecMain == InitMain /\ [][NextMain]_vars

\* The cities requested on an accepted command line, in order.
Requested == parse_cities(args.cities).slugs

\* The positions of the log at which the run of the city raised.
FailedRuns == {i \in DOMAIN steps : steps[i].run.raised # "none"}

\* C11: in a multi-city run every requested city is attempted exactly once
\* and in order whatever happened to the earlier cities (the log of the
\* calls is a prefix of the requested cities while the loop runs and the
\* whole list once main has ended), failed holds exactly the cities whose
\* run raised, and main ends with a non-zero exit exactly when at least
\* one city failed.
C11_EveryCityAttemptedOnce ==
    (pc = "loop" \/ (pc = "exited" /\ ret # "SystemExit(2)")) =>
        /\ Len(steps) <= Len(Requested)
        /\ \A i \in DOMAIN steps : steps[i].slug = Requested[i]
        /\ Len(failed) = Cardinality(FailedRuns)
        /\ \A i \in FailedRuns :
              failed[Cardinality({j \in FailedRuns : j <= i})] = steps[i].slug
        /\ pc = "exited" =>
              /\ Len(steps) = Len(Requested)
              /\ (ret = "SystemExit(1)") <=> (FailedRuns # {})
              /\ (ret = "None") <=> (FailedRuns = {})

C11_Witness ==
    /\ pc = "exited"
    /\ Len(steps) >= 2
    /\ steps[1].run.raised # "none"
    /\ steps[2].slug = Requested[2]
    /\ ret = "SystemExit(1)"

\* A valid configuration: known cities, a signal mode of on/off/auto,
\* quantiles in (0,1) with low < high, a weight triple summing to 1.0 or none.
ValidConfiguration(a) ==
    /\ parse_cities(a.cities).raised = "none"
    /\ a.signals \in {"on", "off", "auto"}
    /\ 0 < a.q_low /\ a.q_low < a.q_high /\ a.q_high < QuantileDen
    /\ a.weights = <<>> \/ a.weights[1] + a.weights[2] + a.weights[3] = WeightDen

\* C12: for every valid command line each city run is started, and the
\* signal mode, the weight triple and the quantiles of the command line
\* are the ones its score engine and band assigner use.
C12_CommandLineSettingsUsed ==
    ValidConfiguration(args) =>
        \A i \in DOMAIN steps :
            /\ steps[i].run.started
            /\ steps[i].run.signal_mode = args.signals
            /\ steps[i].run.weights = args.weights
            /\ steps[i].run.q_low = args.q_low
            /\ steps[i].run.q_high = args.q_high

\* A triple whose sum differs from 1.0 by more than 0.01.
SumOffByMoreThanTolerance(w) ==
    w # <<>> /\ (w[1] + w[2] + w[3] > WeightDen + 2 \/ w[1] + w[2] + w[3] < WeightDen - 2)

\* C13: a weight triple whose sum differs from 1.0 by more than 0.01 is
\* rejected as a configuration error before any city is processed: no city
\* is ever attempted with it and main ends with the exit status of a
\* command-line error.
C13_BadWeightSumRejected ==
    SumOffByMoreThanTolerance(args.weights) =>
        /\ steps = <<>>
        /\ pc # "loop"
        /\ pc = "exited" => ret = "SystemExit(2)"

C13_Witness ==
    /\ pc = "exited"
    /\ SumOffByMoreThanTolerance(args.weights)
    /\ args.signals = "auto"
    /\ parse_cities(args.cities).raised = "none"
    /\ ret = "SystemExit(2)"

\* C14: a command line whose lower quantile is not strictly below its upper
\* quantile, or whose quantiles are outside (0,1), is rejected before any
\* computation starts: no city is ever attempted with it.
C14_BadQuantilesRejected ==
    ~(0 < args.q_low /\ args.q_low < args.q_high /\ args.q_high < QuantileDen) =>
        /\ steps = <<>>
        /\ pc # "loop"

\* C20: after compute_urbanicity_score with any weight triple the
\* configuration accepts and any usability outcome, the three effective
\* weights recorded in the run metadata sum to 1.0.
C20_EffectiveWeightsSumToOne ==
    (pc \in {"scored", "raised"} /\ args.weights # <<>>) =>
        /\ pc = "scored"
        /\ gdf.attrs["w_int_eff"].num + gdf.attrs["w_road_eff"].num
              + gdf.attrs["w_sig_eff"].num = gdf.attrs["w_int_eff"].den

(***************************************************************************)
(* The density aggregator (metrics.py).  Geometry is exact on a grid whose *)
(* unit is 1 km: cell g is the closed square [CellSide*g, CellSide*(g+1)]  *)
(* x [0, CellSide], so cells g and g+1 share the boundary x =              *)
(* CellSide*(g+1) and every cell has area CellSide^2 km2.  The cell table  *)
(* (hexes) is [index, geom]: row p has the index label index[p] and the    *)
(* geometry geom[p].  A density series is [index, den, cells]: the value   *)
(* stored under label index[p] is cells[p].v / den.                        *)
(***************************************************************************)
CellSide == 2

\* gdf_proj["geometry"].area / 1_000_000 of a square of side CellSide km.
hex_area_km2 == ((CellSide * 1000) * (CellSide * 1000)) \div 1000000

XMin(g) == CellSide * g

XMax(g) == CellSide * (g + 1)

\* pd.Series(0.0, index=hexes.index)
ZeroDensity(hexes) ==
    [index |-> hexes.index, den |-> 1, cells |-> [p \in DOMAIN hexes.geom |-> F(0)]]

\* Mutant of Within: a point on the boundary of a cell counts as inside it.
WithinClosed(pt, g) ==
    /\ XMin(g) <= pt.x /\ pt.x <= XMax(g)
    /\ 0 <= pt.y /\ pt.y <= CellSide

\* predicate="within": the point lies in the interior of the cell.
Within(pt, g) ==
    /\ XMin(g) < pt.x /\ pt.x < XMax(g)
    /\ 0 < pt.y /\ pt.y < CellSide

\* gpd.sjoin(points, hexes, how="inner", predicate="within"): one row per
\* (point, cell) pair, carrying the label of the cell (index_right).
sjoin(points, hexes) ==
    {<<j, p>> \in (DOMAIN points) \X (DOMAIN hexes.geom) : Within(points[j], hexes.geom[p])}

\* joined.groupby("index_right").size(), left-joined to the cells on their
\* label, missing counts filled with 0, divided by hex_area_km2.
point_density(points, hexes) ==
    LET joined == sjoin(points, hexes)
        count(label) == Cardinality({r \in joined : hexes.index[r[2]] = label})
    IN  [index |-> hexes.index,
         den   |-> hex_area_km2,
         cells |-> [p \in DOMAIN hexes.geom |-> F(count(hexes.index[p]))]]

\* compute_intersection_density(hexes, intersections, city)
compute_intersection_density(hexes, intersections) ==
    IF intersections = <<>> THEN ZeroDensity(hexes)
    ELSE point_density(intersections, hexes)

\* signals[signals.geometry.geom_type == "Point"]
PointsOnly(features) == SelectSeq(features, LAMBDA f : f.geom_type = "Point")

\* compute_signal_density(hexes, signals, city)
compute_signal_density(hexes, signals) ==
    IF signals = <<>> THEN ZeroDensity(hexes)
    ELSE IF PointsOnly(signals) = <<>> THEN ZeroDensity(hexes)
    ELSE point_density(PointsOnly(signals), hexes)

(***************************************************************************)
(* Inputs of the two point densities: rows of cells (adjacent, with a gap, *)
(* or twice the same cell) under default and other index labels; points    *)
(* inside a cell, on a shared boundary, on an outer boundary and outside   *)
(* every cell.                                                             *)
(***************************************************************************)
MaxPoints == 2

\* Rows of cells: geometry of each row.
CellRows == {<<>>, <<0>>, <<0, 1>>, <<0, 1, 2>>, <<0, 2>>, <<1, 1>>}

\* Index labels for n rows: 0..n-1, the same reversed, and 1..n.
IndexLabels(n) ==
    {[p \in 1..n |-> p - 1], [p \in 1..n |-> n - p], [p \in 1..n |-> p]}

CellTables == UNION {{[index |-> l, geom |-> g] : l \in IndexLabels(Len(g))} : g \in CellRows}

Point(x, y) == [geom_type |-> "Point", x |-> x, y |-> y]

PointFeatures ==
    {Point(1, 1), Point(CellSide, 1), Point(CellSide + 1, 1), Point(1, CellSide),
     Point(3 * CellSide + 1, 1)}

PointCollections == UNION {[1..n -> PointFeatures] : n \in 0..MaxPoints}

\* What load_signals may hand over: points, and features that are no points.
SignalCollections ==
    {<<>>, <<Point(1, 1)>>, <<[geom_type |-> "LineString", x |-> 1, y |-> 1]>>,
     <<Point(CellSide, 1), [geom_type |-> "Polygon", x |-> 1, y |-> 1], Point(CellSide + 1, 1)>>}

InitPoint ==
    /\ pc = "point0"
    /\ args \in {[hexes |-> h, intersections |-> i, signals |-> g] :
                    h \in CellTables, i \in PointCollections, g \in SignalCollections}
    /\ gdf = NoTable
    /\ ret = <<>>
    /\ steps = <<>>
    /\ series = <<>>
    /\ zs = <<>>
    /\ failed = <<>>
    /\ files = <<>>

\* int_density = compute_intersection_density(hexes, intersections, city)
IntersectionDensity ==
    /\ pc = "point0"
    /\ ret' = ("intersection_density_per_km2"
                  :> compute_intersection_density(args.hexes, args.intersections)) @@ ret
    /\ pc' = "point1"
    /\ UNCHANGED <<gdf, args, steps, series, zs, failed, files>>

\* sig_density = compute_signal_density(hexes, signals, city)
SignalDensity ==
    /\ pc = "point1"
    /\ ret' = ("signal_density_per_km2"
                  :> compute_signal_density(args.hexes, args.signals)) @@ ret
    /\ pc' = "point2"
    /\ UNCHANGED <<gdf, args, steps, series, zs, failed, files>>

\* The cells of a table have pairwise disjoint interiors.
DisjointInteriors(hexes) ==
    \A p, q \in DOMAIN hexes.geom : p # q => hexes.geom[p] # hexes.geom[q]

\* The number of points counted in row p of a point density.
CountIn(density, p) == (density.cells[p].v * hex_area_km2) \div density.den

\* A point on a boundary shared by two cells of the table.
OnSharedBoundary(pt, hexes) ==
    \E p, q \in DOMAIN hexes.geom :
        /\ hexes.geom[q] = hexes.geom[p] + 1
        /\ pt.x = XMax(hexes.geom[p]) /\ 0 <= pt.y /\ pt.y <= CellSide

\* C16: in point density every point is counted in at most one cell: for
\* cells with pairwise disjoint interiors the per-cell counts sum to at most
\* the number of point features, and each single point (one on a boundary
\* shared by two cells included) is counted in at most one cell.
C16_PointCountedAtMostOnce ==
    (pc \in {"point1", "point2"} /\ DisjointInteriors(args.hexes)) =>
        LET d == ret["intersection_density_per_km2"]
            n == Len(args.hexes.geom)
        IN  /\ SumSeq([p \in 1..n |-> CountIn(d, p)]) <= Len(args.intersections)
            /\ \A j \in DOMAIN args.intersections :
                  Cardinality({p \in 1..n :
                      CountIn(compute_intersection_density(args.hexes,
                                  <<args.intersections[j]>>), p) > 0}) <= 1
            /\ pc = "point2" =>
                  SumSeq([p \in 1..n |-> CountIn(ret["signal_density_per_km2"], p)])
                      <= Len(PointsOnly(args.signals))

C16_Witness ==
    /\ pc = "point2"
    /\ DisjointInteriors(args.hexes)
    /\ Len(args.intersections) = 2
    /\ OnSharedBoundary(args.intersections[1], args.hexes)
    /\ ~OnSharedBoundary(args.intersections[2], args.hexes)
    /\ SumSeq([p \in DOMAIN args.hexes.geom |->
                  CountIn(ret["intersection_density_per_km2"], p)]) = 1

(***************************************************************************)
(* compute_road_density (metrics.py).  A road edge is a straight segment   *)
(* [x1, y1, x2, y2, bad] parallel to an axis (x1 <= x2, y1 <= y2); bad     *)
(* marks a malformed geometry, on which the geometric intersection raises. *)
(***************************************************************************)
Max(a, b) == IF a >= b THEN a ELSE b

Min(a, b) == IF a <= b THEN a ELSE b

\* geometry.intersection of an edge and a closed cell: nothing, a point
\* (the edge only touches the cell) or a segment, with its length in metres.
Intersection(e, g) ==
    LET lox == Max(e.x1, XMin(g))
        hix == Min(e.x2, XMax(g))
        loy == Max(e.y1, 0)
        hiy == Min(e.y2, CellSide)
    IN  IF lox > hix \/ loy > hiy THEN [geom_type |-> "empty", length |-> 0]
        ELSE IF lox = hix /\ loy = hiy THEN [geom_type |-> "Point", length |-> 0]
        ELSE [geom_type |-> "LineString", length |-> 1000 * ((hix - lox) + (hiy - loy))]

\* edges_sindex.intersection(hex_batch.geometry.total_bounds): the edges
\* whose bounding box meets the bounding box of the batch (none for an
\* empty batch).
Candidates(edges, hexes, rows) ==
    IF rows = {} THEN {}
    ELSE LET minx == CHOOSE v \in {XMin(hexes.geom[p]) : p \in rows} :
                        \A p \in rows : v <= XMin(hexes.geom[p])
             maxx == CHOOSE v \in {XMax(hexes.geom[p]) : p \in rows} :
                        \A p \in rows : v >= XMax(hexes.geom[p])
         IN  {j \in DOMAIN edges :
                 /\ edges[j].x1 <= maxx /\ edges[j].x2 >= minx
                 /\ edges[j].y1 <= CellSide /\ edges[j].y2 >= 0}

\* The (edge, row) pairs gpd.overlay intersects: those whose geometries meet.
OverlayPairs(edges, hexes, rows, cand) ==
    {<<j, p>> \in cand \X rows : Intersection(edges[j], hexes.geom[p]).geom_type # "empty"}

\* Mutant of OverlayRaises: a malformed edge is left out and never raises.
OverlayNeverRaises(edges, pairs) == FALSE

\* gpd.overlay raises when one of the intersections it computes raises.
OverlayRaises(edges, pairs) == \E r \in pairs : edges[r[1]].bad

\* dict.get(key, 0.0)
Get(d, key) == IF key \in DOMAIN d THEN d[key] ELSE 0

\* One pass of the batch loop: road_length_km after batch batch_i.
RoadBatch(road_length_km, hexes, edges, chunk_size, batch_i) ==
    LET n_hexes == Len(hexes.geom)
        start   == batch_i * chunk_size
        end     == Min(start + chunk_size, n_hexes)
        rows    == (start + 1)..end
        cand    == Candidates(edges, hexes, rows)
        pairs   == OverlayPairs(edges, hexes, rows, cand)
        clipped == {r \in pairs :
                       Intersection(edges[r[1]], hexes.geom[r[2]]).geom_type = "LineString"}
        labels  == {hexes.index[r[2]] : r \in clipped}
        length_m(label) ==
            LET rs == {r \in clipped : hexes.index[r[2]] = label}
                f[S \in SUBSET rs] ==
                    IF S = {} THEN 0
                    ELSE LET r == CHOOSE x \in S : TRUE
                         IN  Intersection(edges[r[1]], hexes.geom[r[2]]).length + f[S \ {r}]
            IN  f[rs]
    IN  IF cand = {} THEN road_length_km
        ELSE IF OverlayRaises(edges, pairs) THEN road_length_km
        ELSE IF clipped = {} THEN road_length_km
        ELSE [l \in DOMAIN road_length_km \cup labels |->
                 IF l \in labels
                 THEN Get(road_length_km, l) + length_m(l) \div 1000
                 ELSE road_length_km[l]]

RECURSIVE RoadBatches(_, _, _, _, _, _)
\* for batch_i in range(n_batches)
RoadBatches(road_length_km, hexes, edges, chunk_size, batch_i, n_batches) ==
    IF batch_i >= n_batches THEN road_length_km
    ELSE RoadBatches(RoadBatch(road_length_km, hexes, edges, chunk_size, batch_i),
                     hexes, edges, chunk_size, batch_i + 1, n_batches)

\* compute_road_density(hexes, edges, city, chunk_size): the lengths are
\* collected under the index label of the cell and read back under the
\* position of the row (hexes_reset.index.map), missing ones filled with 0.
compute_road_density(hexes, edges, chunk_size) ==
    LET n_hexes   == Len(hexes.geom)
        n_batches == Max(1, (n_hexes + chunk_size - 1) \div chunk_size)
        road_length_km == RoadBatches(<<>>, hexes, edges, chunk_size, 0, n_batches)
    IN  IF edges = <<>> THEN ZeroDensity(hexes)
        ELSE [index |-> hexes.index,
              den   |-> hex_area_km2,
              cells |-> [p \in 1..n_hexes |-> F(Get(road_length_km, p - 1))]]

(***************************************************************************)
(* SpecMetrics: the three density functions.  A run either computes the    *)
(* two point densities or the road density of a cell table, the latter for *)
(* every batch size: edges inside one cell, across two or three cells,     *)
(* along a shared boundary, touching a cell in one point, outside every    *)
(* cell, and malformed edges.                                              *)
(***************************************************************************)
MaxEdges == 2

MaxChunk == 2

DefaultChunkSize == 5000

Edge(x1, y1, x2, y2, bad) == [x1 |-> x1, y1 |-> y1, x2 |-> x2, y2 |-> y2, bad |-> bad]

RoadEdges ==
    {Edge(1, 1, CellSide + 1, 1, FALSE),
     Edge(1, 0, 1, CellSide, FALSE),
     Edge(CellSide, 0, CellSide, CellSide, FALSE),
     Edge(CellSide, 1, CellSide + 1, 1, FALSE),
     Edge(3 * CellSide + 1, 1, 3 * CellSide + 2, 1, FALSE),
     Edge(0, 1, 3 * CellSide, 1, FALSE),
     Edge(1, 1, CellSide + 1, 1, TRUE),
     Edge(2 * CellSide + 1, 0, 2 * CellSide + 1, CellSide, TRUE)}

EdgeCollections == UNION {[1..n -> RoadEdges] : n \in 0..MaxEdges}

ChunkSizes == (1..MaxChunk) \cup {DefaultChunkSize}

InitRoad ==
    /\ pc = "road0"
    /\ args \in {[hexes |-> h, edges |-> e, chunk_size |-> c] :
                    h \in CellTables, e \in EdgeCollections, c \in ChunkSizes}
    /\ gdf = NoTable
    /\ ret = <<>>
    /\ steps = <<>>
    /\ series = <<>>
    /\ zs = <<>>
    /\ failed = <<>>
    /\ files = <<>>

\* road_density = compute_road_density(hexes, edges, city, chunk_size)
RoadDensity ==
    /\ pc = "road0"
    /\ ret' = ("road_density_km_per_km2"
                  :> compute_road_density(args.hexes, args.edges, args.chunk_size)) @@ ret
    /\ pc' = "road1"
    /\ UNCHANGED <<gdf, args, steps, series, zs, failed, files>>

InitMetrics == InitPoint \/ InitRoad

NextMetrics == IntersectionDensity \/ SignalDensity \/ RoadDensity

SpecMetrics == InitMetrics /\ [][NextMetrics]_vars

\* The index labels of a cell table are the default ones, 0..n-1 in order.
DefaultIndex(hexes) == \A p \in DOMAIN hexes.index : hexes.index[p] = p - 1

\* The intersection of the pair fails: the edge is malformed and meets the cell.
PairFails(e, g) == e.bad /\ Intersection(e, g).geom_type # "empty"

RECURSIVE ClippedKm(_, _, _)
\* The clipped length in km of the first j edges in cell g, over the pairs
\* whose intersection does not fail.
ClippedKm(edges, j, g) ==
    IF j = 0 THEN 0
    ELSE ClippedKm(edges, j - 1, g)
         + (IF PairFails(edges[j], g) THEN 0
            ELSE Intersection(edges[j], g).length \div 1000)

\* The number of points of a collection that fall in cell g.
PointsIn(points, g) == Cardinality({j \in DOMAIN points : Within(points[j], g)})

\* A density series has one value per cell under the cell's label, none
\* negative, and row p holds amount(p) / hex_area_km2.
DensityOf(density, hexes, amount(_)) ==
    /\ density.index = hexes.index
    /\ DOMAIN density.cells = DOMAIN hexes.geom
    /\ \A p \in DOMAIN hexes.geom :
          /\ ~density.cells[p].nan
          /\ density.cells[p].v >= 0
          /\ density.cells[p].v * hex_area_km2 = amount(p) * density.den

\* C15: each of the three density functions returns exactly one value per
\* cell of the cell table, every value is >= 0, the value is 0 in every
\* cell when the feature collection is empty and in every cell no feature
\* falls in, and otherwise it is the cell's feature count (or clipped
\* length in km) divided by the cell's area.
C15_DensityPerCell ==
    /\ pc \in {"point1", "point2"} =>
          DensityOf(ret["intersection_density_per_km2"], args.hexes,
                    LAMBDA p : PointsIn(args.intersections, args.hexes.geom[p]))
    /\ pc = "point2" =>
          DensityOf(ret["signal_density_per_km2"], args.hexes,
                    LAMBDA p : PointsIn(PointsOnly(args.signals), args.hexes.geom[p]))
    /\ pc = "road1" =>
          DensityOf(ret["road_density_km_per_km2"], args.hexes,
                    LAMBDA p : ClippedKm(args.edges, Len(args.edges), args.hexes.geom[p]))

\* The length in km apportioned to row p by a road density.
ApportionedKm(density, p) == (density.cells[p].v * hex_area_km2) \div density.den

\* The edge lies entirely within the union of the cells of the table.
WithinUnion(e, hexes) ==
    /\ 0 <= e.y1 /\ e.y2 <= CellSide
    /\ \A x \in e.x1..e.x2 : \E p \in DOMAIN hexes.geom :
          XMin(hexes.geom[p]) <= x /\ x <= XMax(hexes.geom[p])
    /\ \A x \in e.x1..(e.x2 - 1) : \E p \in DOMAIN hexes.geom :
          XMin(hexes.geom[p]) <= x /\ x + 1 <= XMax(hexes.geom[p])

\* C17: apportionment conservation: for every well-formed road edge lying
\* entirely within the union of the cells (one running along a boundary
\* shared by two cells included), the lengths compute_road_density
\* apportions to the cells sum to the edge's own length.
C17_ApportionmentConserved ==
    (pc = "road1" /\ DefaultIndex(args.hexes) /\ DisjointInteriors(args.hexes)) =>
        \A j \in DOMAIN args.edges :
            LET e == args.edges[j]
                d == compute_road_density(args.hexes, <<e>>, args.chunk_size)
            IN  (~e.bad /\ WithinUnion(e, args.hexes)) =>
                    SumSeq([p \in DOMAIN args.hexes.geom |-> ApportionedKm(d, p)])
                        = (e.x2 - e.x1) + (e.y2 - e.y1)

\* C18: for any cell set and edge set compute_road_density returns the same
\* per-cell densities for every chunk_size >= 1.
C18_BatchingIndependent ==
    pc = "road1" =>
        \A c \in ChunkSizes :
            compute_road_density(args.hexes, args.edges, c) = ret["road_density_km_per_km2"]

\* C19: when the intersection fails for an edge/cell pair,
\* compute_road_density still returns a result in which only the failing
\* pairs' contributions are missing: every other pair, those of the same
\* batch included, contributes its clipped length.
C19_OnlyFailingPairSkipped ==
    (/\ pc = "road1"
     /\ DefaultIndex(args.hexes)
     /\ \E j \in DOMAIN args.edges, p \in DOMAIN args.hexes.geom :
           PairFails(args.edges[j], args.hexes.geom[p])) =>
        \A p \in DOMAIN args.hexes.geom :
            ApportionedKm(ret["road_density_km_per_km2"], p)
                = ClippedKm(args.edges, Len(args.edges), args.hexes.geom[p])

(***************************************************************************)
(* SpecEngine: the core stages in sequence on one cell table:              *)
(* assemble_metrics, compute_urbanicity_score, assign_urbanicity_band and  *)
(* validate_city_output.  The cell table carries its index labels and the  *)
(* columns of build_hex_geodataframe the stages must leave alone; steps    *)
(* keeps the table each stage was given.                                   *)
(***************************************************************************)
MaxEngineCells == 4

EngineDensities == {0, 2, 4, 6}

\* series.reindex(index): the value stored under each label of index, NaN
\* for a label the series does not have.
Reindex(density, index) ==
    [den   |-> density.den,
     cells |-> [p \in DOMAIN index |->
                  IF \E q \in DOMAIN density.index : density.index[q] = index[p]
                  THEN density.cells[CHOOSE q \in DOMAIN density.index :
                                        density.index[q] = index[p]]
                  ELSE NaN]]

\* assemble_metrics(hexes, intersection_density, road_density, signal_density)
assemble_metrics(hexes, intersection_density, road_density, signal_density) ==
    SetCol(SetCol(SetCol(hexes,
        "intersection_density_per_km2", Fillna0(Reindex(intersection_density, hexes.index))),
        "road_density_km_per_km2", Fillna0(Reindex(road_density, hexes.index))),
        "signal_density_per_km2", Fillna0(Reindex(signal_density, hexes.index)))

\* The cell table of n cells as build_hex_geodataframe leaves it.
HexTable(n) ==
    [len   |-> n,
     index |-> [p \in 1..n |-> p - 1],
     cols  |-> ("h3_index" :> [den |-> 1, cells |-> [p \in 1..n |-> F(880 + p)]])
               @@ ("hex_area_km2" :> ConstColumn(n, F(1))),
     attrs |-> <<>>]

\* Density readings along a row of n cells: rising or falling.
Monotone(n) ==
    {xs \in [1..n -> EngineDensities] :
        \/ \A p \in 1..(n - 1) : xs[p] <= xs[p + 1]
        \/ \A p \in 1..(n - 1) : xs[p] >= xs[p + 1]}

\* A density series over the labels index.
Density(index, cells) == [index |-> index, den |-> 1, cells |-> cells]

EngineInputs ==
    UNION {{[intersection_density |-> Density(HexTable(n).index, IntColumn(xs).cells),
             road_density   |-> Density(HexTable(n).index, PrefixColumn(n, r, 1, 0).cells),
             signal_density |-> Density([p \in 1..n |-> p - 1 + shift],
                                        PrefixColumn(n, k, 1, 0).cells),
             n |-> n, signal_mode |-> m, eps |-> 0] :
                xs \in Monotone(n), r \in {n \div 2, n},
                k \in {0, n}, shift \in {0, 1}, m \in SignalModes} :
           n \in 1..MaxEngineCells}

InitEngine ==
    /\ pc = "engine0"
    /\ args \in EngineInputs
    /\ gdf = HexTable(args.n)
    /\ ret = "none"
    /\ steps = <<>>
    /\ series = <<>>
    /\ zs = <<>>
    /\ failed = <<>>
    /\ files = <<>>

\* hexes = assemble_metrics(hexes, int_density, road_density, sig_density)
Assemble ==
    /\ pc = "engine0"
    /\ gdf' = assemble_metrics(gdf, args.intersection_density, args.road_density,
                               args.signal_density)
    /\ steps' = Append(steps, gdf)
    /\ pc' = "engine_assembled"
    /\ UNCHANGED <<args, ret, series, zs, failed, files>>

\* hexes = compute_urbanicity_score(hexes, city, signal_mode)
EngineScore ==
    /\ pc = "engine_assembled"
    /\ LET r == compute_urbanicity_score(gdf, args.signal_mode, <<>>, args.eps)
       IN  /\ ret' = r.raised
           /\ gdf' = r.result
           /\ pc' = IF r.raised = "none" THEN "engine_scored" ELSE "engine_raised"
    /\ steps' = Append(steps, gdf)
    /\ UNCHANGED <<args, series, zs, failed, files>>

\* hexes = assign_urbanicity_band(hexes, city)
EngineBand ==
    /\ pc = "engine_scored"
    /\ gdf' = assign_urbanicity_band(gdf, QUANTILE_HIGH, QUANTILE_LOW)
    /\ steps' = Append(steps, gdf)
    /\ pc' = "engine_banded"
    /\ UNCHANGED <<args, ret, series, zs, failed, files>>

\* validate_city_output(hexes, city.slug)
EngineValidate ==
    /\ pc = "engine_banded"
    /\ ret' = validate_city_output(gdf)
    /\ pc' = "engine_validated"
    /\ UNCHANGED <<gdf, args, steps, series, zs, failed, files>>

NextEngine == Assemble \/ EngineScore \/ EngineBand \/ EngineValidate

SpecEngine == InitEngine /\ [][NextEngine]_vars

\* The end-to-end scenario: 4 cells, intersection densities [0,2,4,6], road
\* and signal densities 1.0 in every cell, automatic signal mode.
Scenario ==
    /\ args.n = 4
    /\ args.intersection_density.cells = IntColumn(<<0, 2, 4, 6>>).cells
    /\ args.road_density.cells = ConstColumn(4, F(1)).cells
    /\ args.signal_density.cells = ConstColumn(4, F(1)).cells
    /\ args.signal_density.index = args.intersection_density.index
    /\ args.signal_mode = "auto"

\* Cell p of column name holds the rational num[p] / den.
Holds(name, num, den) ==
    \A p \in 1..4 : /\ ~gdf.cols[name].cells[p].nan
                    /\ gdf.cols[name].cells[p].v * den = num[p] * gdf.cols[name].den

\* C21: in the end-to-end scenario signals are judged usable, the z-scores
\* of intersection density are [-1.5,-0.5,0.5,1.5], those of road and
\* signal density are 0, the composite scores are [-0.75,-0.25,0.25,0.75],
\* the thresholds of quantiles 0.30/0.70 are -0.30 and 0.30 (strictly
\* between entries) and the bands are [1,2,2,3].
C21_EndToEndScenario ==
    (Scenario /\ pc \in {"engine_scored", "engine_banded", "engine_validated"}) =>
        /\ gdf.attrs["signals_used"].val
        /\ Holds("z_intersection_density", <<-3, -1, 1, 3>>, 2)
        /\ Holds("z_road_density", <<0, 0, 0, 0>>, 1)
        /\ Holds("z_signal_density", <<0, 0, 0, 0>>, 1)
        /\ Holds("urbanicity_score_continuous", <<-3, -1, 1, 3>>, 4)
        /\ pc # "engine_scored" =>
              /\ Holds("t_low_q30", <<-3, -3, -3, -3>>, 10)
              /\ Holds("t_high_q70", <<3, 3, 3, 3>>, 10)
              /\ Holds("urbanicity_band_3_2_1", <<1, 2, 2, 3>>, 1)

C21_Witness == Scenario /\ pc = "engine_banded"

\* The table a stage was given and the table it returned, stage by stage.
StagePairs ==
    {<<steps[i], IF i = Len(steps) THEN gdf ELSE steps[i + 1]>> : i \in DOMAIN steps}

\* after has the cells of before in the same order under the same labels,
\* and every column of before with the values it had.
OnlyAppends(before, after) ==
    /\ after.len = before.len
    /\ after.index = before.index
    /\ DOMAIN before.cols \subseteq DOMAIN after.cols
    /\ \A c \in DOMAIN before.cols : after.cols[c] = before.cols[c]

ScoreMetadata == {"w_int_eff", "w_road_eff", "w_sig_eff", "signals_used"}

\* C23: assemble_metrics, compute_urbanicity_score and
\* assign_urbanicity_band each return a table with the same cells in the
\* same order with the same identifiers, in which every column present
\* before the stage keeps its values and columns are only added; the
\* metadata recorded by scoring is present and unchanged after banding.
C23_StagesOnlyAppend ==
    /\ \A pair \in StagePairs :
          /\ OnlyAppends(pair[1], pair[2])
          /\ DOMAIN pair[2].cols # DOMAIN pair[1].cols
    /\ Len(steps) >= 3 =>
          /\ ScoreMetadata \subseteq DOMAIN steps[3].attrs
          /\ gdf.attrs = steps[3].attrs

C23_Witness ==
    /\ pc = "engine_banded"
    /\ Len(steps) = 3
    /\ gdf.len = MaxEngineCells
    /\ DOMAIN steps[1].cols = {"h3_index", "hex_area_km2"}
    /\ Cardinality(DOMAIN gdf.cols) = 12
    /\ gdf.cols["h3_index"] = steps[1].cols["h3_index"]

(***************************************************************************)
(* The scale robust_zscore divides by (SpecZ).  The input column has       *)
(* denominator 1, so MAD_EPS is args.eps units.                            *)
(***************************************************************************)
ZInput == [i \in DOMAIN series.cells |-> series.cells[i].v]

\* Twice the deviation of cell i from the median.
Deviation2(i) == 2 * ZInput[i] - Median2(ZInput)

\* Four times the median absolute deviation.
MAD4 == Median2([i \in DOMAIN ZInput |-> Abs(Deviation2(i))])

\* MAD >= EPS, EPS being positive: below the unit when args.eps = 0.
MadAtLeastEps == IF args.eps = 0 THEN MAD4 > 0 ELSE MAD4 >= 4 * args.eps

\* population stddev >= EPS.
StdAtLeastEps ==
    IF args.eps = 0 THEN VarN2(ZInput) > 0
    ELSE VarN2(ZInput) >= Len(ZInput) * Len(ZInput) * args.eps * args.eps

\* d is four times the population standard deviation, rounded up.
IsStd4(d) ==
    /\ d >= 0
    /\ d * d * Len(ZInput) * Len(ZInput) >= 16 * VarN2(ZInput)
    /\ d = 0 \/ (d - 1) * (d - 1) * Len(ZInput) * Len(ZInput) < 16 * VarN2(ZInput)

\* zs[1] is clamp((x - median) / (scale + EPS), -10, 10) for 4*scale = scale4.
ScaledBy(scale4) ==
    /\ zs[1].den = scale4 + 4 * args.eps
    /\ \A i \in DOMAIN ZInput :
          zs[1].cells[i] = F(Max(-10 * zs[1].den, Min(10 * zs[1].den, 2 * Deviation2(i))))

AllZeros == \A i \in DOMAIN zs[1].cells : zs[1].cells[i] = F(0)

\* C24 as stated: a column with MAD = 0 and stddev > 0 gets 0 in the cells
\* at the median and a non-zero z-score in every other cell.
C24_Original ==
    (pc \in {"z1", "z2"} /\ Len(ZInput) > 0 /\ MAD4 = 0 /\ VarN2(ZInput) > 0) =>
        \A i \in DOMAIN ZInput :
            (Deviation2(i) = 0) <=> (zs[1].cells[i] = F(0))

\* C24: robust_zscore scales by the MAD when MAD >= EPS and by the
\* population standard deviation otherwise, and returns all zeros exactly
\* when that fallback is below EPS too; a column with MAD below EPS and
\* stddev >= EPS gets z = clamp((x - median) / (stddev + EPS), -10, 10),
\* which is 0 in the cells at the median and non-zero in the others.
C24_ScaleSelection ==
    (pc \in {"z1", "z2"} /\ Len(ZInput) > 0) =>
        /\ Len(zs[1].cells) = Len(ZInput)
        /\ MadAtLeastEps => ScaledBy(MAD4)
        /\ (~MadAtLeastEps /\ StdAtLeastEps) =>
              /\ IsStd4(zs[1].den - 4 * args.eps)
              /\ ScaledBy(zs[1].den - 4 * args.eps)
              /\ \A i \in DOMAIN ZInput :
                    (Deviation2(i) = 0) <=> (zs[1].cells[i] = F(0))
        /\ AllZeros <=> (~MadAtLeastEps /\ ~StdAtLeastEps)

\* C24 witness: more than half of the cells share one value, one cell
\* differs, and the column was scaled by its standard deviation.
C24_Witness ==
    /\ pc = "z1"
    /\ Len(ZInput) >= 3
    /\ MAD4 = 0
    /\ StdAtLeastEps
    /\ \E i \in DOMAIN ZInput : zs[1].cells[i] # F(0)
    /\ \E i \in DOMAIN ZInput : zs[1].cells[i] = F(0)

\* No pair of an edge and a cell fails to intersect.
NoPairFails ==
    \A j \in DOMAIN args.edges, p \in DOMAIN args.hexes.geom :
        ~PairFails(args.edges[j], args.hexes.geom[p])

\* C25: for any index labels of the cell table, the road density is aligned
\* to the table's index and the value stored under a cell's label is that
\* cell's own clipped road length in km divided by the cell's area.
C25_AlignedToIndex ==
    (pc = "road1" /\ NoPairFails) =>
        /\ ret["road_density_km_per_km2"].index = args.hexes.index
        /\ \A p \in DOMAIN args.hexes.geom :
              /\ ~ret["road_density_km_per_km2"].cells[p].nan
              /\ ret["road_density_km_per_km2"].cells[p].v * hex_area_km2
                    = ClippedKm(args.edges, Len(args.edges), args.hexes.geom[p])
                        * ret["road_density_km_per_km2"].den

(***************************************************************************)
(* SpecCoverage: validate_city_output on tables whose shares of finite     *)
(* scores and of positive densities lie at and around the bounds of the    *)
(* percentage checks E1.4, E1.6 and E1.7.                                  *)
(***************************************************************************)
MaxShortfall == 2

\* Table sizes in which 30% (and, for 100, 99%) is a whole number of cells.
CoverageSizes == {10, 20, 100}

\* A column of n cells: the first k hold x, the others y.
Leading(n, k, x, y) == [den |-> 1, cells |-> [i \in 1..n |-> IF i <= k THEN x ELSE y]]

\* A banded table of n cells with finite scores in the first "finite" cells
\* and positive densities in the first int and road cells; nothing else
\* is wrong with it.
CoverageTable(a) ==
    [len   |-> a.n,
     cols  |-> ("intersection_density_per_km2" :> Leading(a.n, a.int, F(1), F(0)))
               @@ ("road_density_km_per_km2" :> Leading(a.n, a.road, F(1), F(0)))
               @@ ("signal_density_per_km2" :> ConstColumn(a.n, F(0)))
               @@ ("urbanicity_band_3_2_1" :> ConstColumn(a.n, F(2)))
               @@ ("urbanicity_score_continuous" :> Leading(a.n, a.finite, F(0), NaN))
               @@ ("z_signal_density" :> ConstColumn(a.n, NaN)),
     attrs |-> ("signals_used" :> PyBool(FALSE))
               @@ ("w_sig_eff" :> [num |-> 0, den |-> WeightDen])]

CoverageInputs ==
    UNION {{[n |-> n, finite |-> n - k, int |-> (3 * n) \div 10 + 1 - i,
             road |-> (3 * n) \div 10 + 1 - r] :
                k \in 0..MaxShortfall, i \in 0..MaxShortfall, r \in 0..MaxShortfall} :
           n \in CoverageSizes}

InitCoverage ==
    /\ pc = "coverage0"
    /\ args \in CoverageInputs
    /\ gdf = CoverageTable(args)
    /\ ret = "none"
    /\ steps = <<>>
    /\ series = <<>>
    /\ zs = <<>>
    /\ failed = <<>>
    /\ files = <<>>

\* validate_city_output(gdf, city_slug)
ValidateCoverage ==
    /\ pc = "coverage0"
    /\ ret' = validate_city_output(gdf)
    /\ pc' = "coverage_validated"
    /\ UNCHANGED <<gdf, args, steps, series, zs, failed, files>>

NextCoverage == ValidateCoverage

SpecCoverage == InitCoverage /\ [][NextCoverage]_vars

C27_EmptySetReported ==
    (pc = "validated" /\ gdf.len = 0) =>
        /\ ret.raised = "UrbanicityValidationError"
        /\ \E i \in DOMAIN ret.failures : ret.failures[i] = <<"E1.1">>
        /\ ListedChecks \cap {"E1.4", "E1.6", "E1.7"} = {}

C27_Witness ==
    /\ pc = "validated"
    /\ gdf.len = 0
    /\ HasCol(gdf, "urbanicity_score_continuous")
    /\ HasCol(gdf, "road_density_km_per_km2")
    /\ Head(ret.failures) = <<"E1.1">>

\* C28: every table produced by assemble_metrics, compute_urbanicity_score
\* (any signal mode, default weights) and assign_urbanicity_band from a
\* non-empty cell set with finite non-negative densities satisfies the
\* checks E1.2 to E1.5 (no negative density, every band in {1,2,3}, at
\* least 99% finite scores, signal metadata consistent with
\* z_signal_density and the signal weight), so that the validator can
\* reject it for E1.6 or E1.7 only.
C28_EngineOutputValid ==
    /\ pc \in {"engine_banded", "engine_validated"} =>
          ViolatedChecks(gdf) \subseteq {"E1.6", "E1.7"}
    /\ pc = "engine_validated" =>
          /\ ListedChecks \subseteq {"E1.6", "E1.7"}
          /\ ret.raised = "UrbanicityValidationError" => ListedChecks # {}

C28_Witness ==
    /\ pc = "engine_validated"
    /\ gdf.len = MaxEngineCells
    /\ args.signal_mode = "off"
    /\ ret.raised = "none"

\* C29: band assignment is monotone in the composite score: of two cells
\* of one city the one with the lower or equal score has the lower or equal
\* band, and cells with equal scores have the same band.
C29_BandMonotone ==
    pc = "banded" =>
        \A a, b \in 1..gdf.len : (Scored(a) /\ Scored(b)) =>
            /\ ScoreOf(a) <= ScoreOf(b) => BandOf(a) <= BandOf(b)
            /\ ScoreOf(a) = ScoreOf(b) => BandOf(a) = BandOf(b)

\* C29 witness: three cells of rising score in bands 1, 2 and 3, and two
\* cells of equal score.
C29_Witness ==
    /\ pc = "banded"
    /\ \E a, b, c \in 1..gdf.len :
          /\ Scored(a) /\ Scored(b) /\ Scored(c)
          /\ ScoreOf(a) < ScoreOf(b) /\ ScoreOf(b) < ScoreOf(c)
          /\ BandOf(a) = 1 /\ BandOf(b) = 2 /\ BandOf(c) = 3
    /\ args.q_low = QUANTILE_LOW
    /\ args.q_high = QUANTILE_HIGH

\* The scores of a table in which every cell is scored.
AllScored == gdf.len > 0 /\ \A i \in 1..gdf.len : Scored(i)

Highest(i) == \A j \in 1..gdf.len : ScoreOf(j) <= ScoreOf(i)

Lowest(i) == \A j \in 1..gdf.len : ScoreOf(i) <= ScoreOf(j)

\* C30: for a non-empty city with finite scores and q_low <= q_high the
\* thresholds satisfy min(score) <= t_low <= t_high <= max(score), the cell
\* with the highest score is in band 3, the cell with the lowest score is
\* in band 1 unless its score reaches the high threshold, and every cell
\* carries the same two threshold values.
C30_ThresholdsWithinScores ==
    (pc = "banded" /\ AllScored /\ args.q_low <= args.q_high) =>
        \A i \in 1..gdf.len :
            /\ ~TLow(i).nan /\ ~THigh(i).nan
            /\ TLow(i) = TLow(1) /\ THigh(i) = THigh(1)
            /\ TLow(i).v <= THigh(i).v
            /\ Highest(i) => (THigh(i).v <= ScoreOf(i) /\ BandOf(i) = 3)
            /\ Lowest(i) => /\ ScoreOf(i) <= TLow(i).v
                            /\ ScoreOf(i) < THigh(i).v => BandOf(i) = 1
                            /\ ScoreOf(i) >= THigh(i).v => BandOf(i) = 3

\* C30 witness: distinct scores, the lowest cell in band 1 and the highest
\* in band 3 with the thresholds strictly inside the range of the scores.
C30_Witness ==
    /\ pc = "banded"
    /\ AllScored
    /\ args.q_low < args.q_high
    /\ \E i, j \in 1..gdf.len :
          /\ Lowest(i) /\ Highest(j)
          /\ ScoreOf(i) < TLow(i).v /\ TLow(i).v < THigh(i).v
          /\ THigh(j).v < ScoreOf(j)
          /\ BandOf(i) = 1 /\ BandOf(j) = 3

====
